---------------------------- MODULE Spec2Model ----------------------------
(***************************************************************************)
(* HealthScoreAI (src/app.py): the extraction-to-report pipeline of        *)
(* analyze_report and the pure functions it calls.                         *)
(*                                                                         *)
(* Numbers.  Every reading and every registry number is a Python float.    *)
(* A number is modelled as an exact rational [n |-> numerator,             *)
(* d |-> denominator] with d > 0, in units of 1/100 of the biomarker's     *)
(* unit: glucose 126 mg/dL is Num(12600), TSH 0.4 mIU/L is Num(40).        *)
(* Sums and quotients are exact; binary rounding of floats is not          *)
(* modelled.                                                               *)
(*                                                                         *)
(* Dictionaries.  A Python dict is a function whose DOMAIN is its key set; *)
(* where the code iterates a dict the model iterates the keys in the fixed *)
(* order KeyOrder.                                                         *)
(***************************************************************************)
EXTENDS Integers, Sequences, FiniteSets, TLC

VARIABLES
    files,                \* the per-source maps of the request, in upload order
    file_idx,             \* number of sources already processed by the loop
    all_biomarkers,       \* key -> scalar or list of readings (app.py 1294)
    processed_files,      \* number of entries of processed_files (app.py 1296)
    final_biomarkers,     \* key -> merged value (app.py 1372)
    analyzed_biomarkers,  \* list of classified-biomarker records (app.py 1380)
    detected_diseases,    \* list of detected conditions (app.py 1400)
    symptoms,             \* list of symptoms (app.py 1403)
    recommendations,      \* bucket -> list of recommendations (app.py 1406)
    hash_seed,            \* the order in which the interpreter iterates a set
    response,             \* the JSON body returned (app.py 1409)
    pc,                   \* position inside analyze_report
    condition,            \* argument of evaluate_disease_condition
    cond_biomarkers,      \* argument of evaluate_disease_condition
    cond_result,          \* its return value
    source,               \* one uploaded source, as its reader delivers it
    source_biomarkers,    \* the dict the source contributes to the merge step
    extracted_numbers,    \* the candidates extract_numbers_from_text returns
    registry_writes,      \* the writes made to the module-level registries
    requests              \* number of the request being served

vars == <<files, file_idx, all_biomarkers, processed_files, final_biomarkers,
          analyzed_biomarkers, detected_diseases, symptoms, recommendations,
          hash_seed, response, pc, condition, cond_biomarkers, cond_result,
          source, source_biomarkers, extracted_numbers, registry_writes, requests>>

pipeline_vars == <<files, file_idx, all_biomarkers, processed_files,
                   final_biomarkers, analyzed_biomarkers, detected_diseases,
                   symptoms, recommendations, hash_seed, response, pc>>

condition_vars == <<condition, cond_biomarkers, cond_result>>

source_vars == <<source, source_biomarkers, extracted_numbers>>

---------------------------------------------------------------------------
(* Exact arithmetic on the modelled floats.  A number is the record of its *)
(* numerator n and denominator d; the mean of a list of readings carries a *)
(* further field ulp when the order of the list moves its float (see       *)
(* OrderShift), which the comparisons below leave aside: no such mean of   *)
(* the model lies on a threshold or a band bound.                          *)

Num(x) == [n |-> x, d |-> 1]

Lt(a, b) == a.n * b.d < b.n * a.d

Le(a, b) == a.n * b.d <= b.n * a.d

Eq(a, b) == a.n * b.d = b.n * a.d

Add(a, b) == [n |-> a.n * b.d + b.n * a.d, d |-> a.d * b.d]

Sub(a, b) == [n |-> a.n * b.d - b.n * a.d, d |-> a.d * b.d]

\* a / k for a positive integer k
DivInt(a, k) == [n |-> a.n, d |-> a.d * k]

\* a * p / q for positive integers p, q (a * 0.2 is MulFrac(a, 1, 5))
MulFrac(a, p, q) == [n |-> a.n * p, d |-> a.d * q]

RECURSIVE SumSeq(_)
\* sum(values) of a list of numbers
SumSeq(s) == IF s = <<>> THEN Num(0) ELSE Add(Head(s), SumSeq(Tail(s)))

\* the ".1f" of an f-string: the number in tenths of the unit, rounded to nearest
Format1f(a) == (2 * a.n + 10 * a.d) \div (20 * a.d)

---------------------------------------------------------------------------
(* BIOMARKER_RULES (app.py 46-274), numbers in 1/100 of the unit.          *)

BiomarkerKeys ==
    <<"glucose", "hba1c", "total_cholesterol", "ldl", "hdl", "hemoglobin",
      "hematocrit", "tsh", "vitamin_d", "vitamin_b12", "vitamin_c",
      "vitamin_a", "systolic_bp", "diastolic_bp", "heart_rate", "creatinine">>

Entry(unit, range, amin, amax, high) ==
    [unit |-> unit, acceptable_range |-> range, acceptable_min |-> Num(amin),
     acceptable_max |-> Num(amax), high_threshold |-> Num(high)]

BIOMARKER_RULES ==
    [k \in {BiomarkerKeys[i] : i \in 1..Len(BiomarkerKeys)} |->
       CASE k = "glucose"           -> Entry("mg/dL", "70-100", 7000, 10000, 12600)
         [] k = "hba1c"             -> Entry("%", "4.0-5.6", 400, 560, 650)
         [] k = "total_cholesterol" -> Entry("mg/dL", "<200", 0, 20000, 24000)
         [] k = "ldl"               -> Entry("mg/dL", "<100", 0, 10000, 16000)
         [] k = "hdl"               -> Entry("mg/dL", ">40 (M), >50 (F)", 4000, 100000, 100000)
         [] k = "hemoglobin"        -> Entry("g/dL", "12-18", 1200, 1800, 2000)
         [] k = "hematocrit"        -> Entry("%", "36-50", 3600, 5000, 5500)
         [] k = "tsh"               -> Entry("mIU/L", "0.4-4.0", 40, 400, 1000)
         [] k = "vitamin_d"         -> Entry("ng/mL", "30-100", 3000, 10000, 15000)
         [] k = "vitamin_b12"       -> Entry("pg/mL", "200-900", 20000, 90000, 100000)
         [] k = "vitamin_c"         -> Entry("mg/dL", "0.6-2.0", 60, 200, 300)
         [] k = "vitamin_a"         -> Entry("ug/dL", "20-60", 2000, 6000, 10000)
         [] k = "systolic_bp"       -> Entry("mmHg", "90-120", 9000, 12000, 14000)
         [] k = "diastolic_bp"      -> Entry("mmHg", "60-80", 6000, 8000, 9000)
         [] k = "heart_rate"        -> Entry("bpm", "60-100", 6000, 10000, 12000)
         [] k = "creatinine"        -> Entry("mg/dL", "0.6-1.3", 60, 130, 200)]

\* acceptable_range.startswith('<') / startswith('>') (app.py 931, 935)
RangePrefix(k) ==
    CASE k \in {"total_cholesterol", "ldl"} -> "<"
      [] k = "hdl" -> ">"
      [] OTHER -> ""

---------------------------------------------------------------------------
(* Keys that reach the pipeline without a registry entry: parse_csv_file   *)
(* hands its normalised names to the merge step as they are (app.py 1315). *)

AdHocKeys == <<"ldl_cholesterol", "hdl_cholesterol">>

\* the order in which the model iterates a dict
KeyOrder == BiomarkerKeys \o AdHocKeys

AllKeys == {KeyOrder[i] : i \in 1..Len(KeyOrder)}

SeqToSet(s) == {s[i] : i \in 1..Len(s)}

\* the keys of dict m, in iteration order
KeysOf(m) == SelectSeq(KeyOrder, LAMBDA k : k \in DOMAIN m)

\* biomarker_key.replace('_', ' ').title() (app.py 980, 1388)
Title(k) ==
    CASE k = "glucose"           -> "Glucose"
      [] k = "hba1c"             -> "Hba1C"
      [] k = "total_cholesterol" -> "Total Cholesterol"
      [] k = "ldl"               -> "Ldl"
      [] k = "hdl"               -> "Hdl"
      [] k = "hemoglobin"        -> "Hemoglobin"
      [] k = "hematocrit"        -> "Hematocrit"
      [] k = "tsh"               -> "Tsh"
      [] k = "vitamin_d"         -> "Vitamin D"
      [] k = "vitamin_b12"       -> "Vitamin B12"
      [] k = "vitamin_c"         -> "Vitamin C"
      [] k = "vitamin_a"         -> "Vitamin A"
      [] k = "systolic_bp"       -> "Systolic Bp"
      [] k = "diastolic_bp"      -> "Diastolic Bp"
      [] k = "heart_rate"        -> "Heart Rate"
      [] k = "creatinine"        -> "Creatinine"
      [] k = "ldl_cholesterol"   -> "Ldl Cholesterol"
      [] k = "hdl_cholesterol"   -> "Hdl Cholesterol"

---------------------------------------------------------------------------
(* Range Classifier (app.py 910-989).                                      *)

\* mutant: the margin taken as half of the range
calculate_optimal_range_half(acceptable_min, acceptable_max) ==
    LET range_size == Sub(acceptable_max, acceptable_min)
        margin     == DivInt(range_size, 2)
    IN  <<Add(acceptable_min, margin), Sub(acceptable_max, margin)>>

calculate_optimal_range(acceptable_min, acceptable_max) ==
    LET range_size  == Sub(acceptable_max, acceptable_min)
        margin      == DivInt(range_size, 5)
        optimal_min == Add(acceptable_min, margin)
        optimal_max == Sub(acceptable_max, margin)
    IN  <<optimal_min, optimal_max>>

\* the value Python's None
None == [none |-> TRUE]

\* the status chain of analyze_biomarker (app.py 943-977): <<status, status_category>>
\* mutant: the high threshold compared with > instead of >=
StatusOfStrictHigh(rules, optimal_min, optimal_max, value) ==
    IF Le(optimal_min, value) /\ Le(value, optimal_max)
    THEN <<"Optimal", "optimal">>
    ELSE IF Le(rules.acceptable_min, value) /\ Le(value, rules.acceptable_max)
    THEN IF Lt(value, optimal_min) THEN <<"Below Optimal", "below_optimal">>
         ELSE IF Lt(optimal_max, value) THEN <<"Above Optimal", "above_optimal">>
         ELSE <<"Optimal", "optimal">>
    ELSE IF Lt(value, rules.acceptable_min)
    THEN <<"Below Acceptable", "below_acceptable">>
    ELSE IF Lt(rules.acceptable_max, value)
    THEN IF Lt(rules.high_threshold, value)
         THEN <<"Significantly High", "significantly_high">>
         ELSE <<"Above Acceptable", "above_acceptable">>
    ELSE <<"Normal", "optimal">>

\* mutant: the acceptable band taken exclusive of its two ends
StatusOfExclusive(rules, optimal_min, optimal_max, value) ==
    IF Le(optimal_min, value) /\ Le(value, optimal_max)
    THEN <<"Optimal", "optimal">>
    ELSE IF Lt(rules.acceptable_min, value) /\ Lt(value, rules.acceptable_max)
    THEN IF Lt(value, optimal_min) THEN <<"Below Optimal", "below_optimal">>
         ELSE IF Lt(optimal_max, value) THEN <<"Above Optimal", "above_optimal">>
         ELSE <<"Optimal", "optimal">>
    ELSE IF Le(value, rules.acceptable_min)
    THEN <<"Below Acceptable", "below_acceptable">>
    ELSE IF Le(rules.acceptable_max, value)
    THEN IF Le(rules.high_threshold, value)
         THEN <<"Significantly High", "significantly_high">>
         ELSE <<"Above Acceptable", "above_acceptable">>
    ELSE <<"Normal", "optimal">>

StatusOf(rules, optimal_min, optimal_max, value) ==
    IF Le(optimal_min, value) /\ Le(value, optimal_max)
    THEN <<"Optimal", "optimal">>
    ELSE IF Le(rules.acceptable_min, value) /\ Le(value, rules.acceptable_max)
    THEN IF Lt(value, optimal_min) THEN <<"Below Optimal", "below_optimal">>
         ELSE IF Lt(optimal_max, value) THEN <<"Above Optimal", "above_optimal">>
         ELSE <<"Optimal", "optimal">>
    ELSE IF Lt(value, rules.acceptable_min)
    THEN <<"Below Acceptable", "below_acceptable">>
    ELSE IF Lt(rules.acceptable_max, value)
    THEN IF Le(rules.high_threshold, value)
         THEN <<"Significantly High", "significantly_high">>
         ELSE <<"Above Acceptable", "above_acceptable">>
    ELSE <<"Normal", "optimal">>

\* optimal_range_display (app.py 931-941): the prefix and the bounds in tenths
OptimalRangeDisplay(biomarker_key, rules, optimal_min, optimal_max) ==
    IF RangePrefix(biomarker_key) = "<"
    THEN [prefix |-> "<",
          lo |-> Format1f(Sub(rules.acceptable_max, MulFrac(rules.acceptable_max, 1, 5))),
          hi |-> Format1f(Sub(rules.acceptable_max, MulFrac(rules.acceptable_max, 1, 5)))]
    ELSE IF RangePrefix(biomarker_key) = ">"
    THEN [prefix |-> ">",
          lo |-> Format1f(Add(rules.acceptable_min, MulFrac(rules.acceptable_min, 1, 4))),
          hi |-> Format1f(Add(rules.acceptable_min, MulFrac(rules.acceptable_min, 1, 4)))]
    ELSE [prefix |-> "", lo |-> Format1f(optimal_min), hi |-> Format1f(optimal_max)]

\* mutant: the registry lookup always misses
analyze_biomarker_miss(biomarker_key, value) == None

\* mutant: an entry with a one-sided range is classified against the bound
\* it displays
analyze_biomarker_one_sided(biomarker_key, value) ==
    IF biomarker_key \notin DOMAIN BIOMARKER_RULES
    THEN None
    ELSE LET rules       == BIOMARKER_RULES[biomarker_key]
             opt         == calculate_optimal_range(rules.acceptable_min, rules.acceptable_max)
             optimal_min == IF RangePrefix(biomarker_key) = "<" THEN rules.acceptable_min
                            ELSE IF RangePrefix(biomarker_key) = ">"
                            THEN Add(rules.acceptable_min, MulFrac(rules.acceptable_min, 1, 4))
                            ELSE opt[1]
             optimal_max == IF RangePrefix(biomarker_key) = "<"
                            THEN Sub(rules.acceptable_max, MulFrac(rules.acceptable_max, 1, 5))
                            ELSE IF RangePrefix(biomarker_key) = ">" THEN rules.acceptable_max
                            ELSE opt[2]
             st          == StatusOf(rules, optimal_min, optimal_max, value)
         IN  [key              |-> biomarker_key,
              name             |-> Title(biomarker_key),
              value            |-> value,
              unit             |-> rules.unit,
              acceptable_range |-> rules.acceptable_range,
              optimal_range    |-> OptimalRangeDisplay(biomarker_key, rules, opt[1], opt[2]),
              status           |-> st[1],
              status_category  |-> st[2],
              is_optimal       |-> st[2] = "optimal"]

analyze_biomarker(biomarker_key, value) ==
    IF biomarker_key \notin DOMAIN BIOMARKER_RULES
    THEN None
    ELSE LET rules       == BIOMARKER_RULES[biomarker_key]
             opt         == calculate_optimal_range(rules.acceptable_min, rules.acceptable_max)
             optimal_min == opt[1]
             optimal_max == opt[2]
             st          == StatusOf(rules, optimal_min, optimal_max, value)
         IN  [key              |-> biomarker_key,
              name             |-> Title(biomarker_key),
              value            |-> value,
              unit             |-> rules.unit,
              acceptable_range |-> rules.acceptable_range,
              optimal_range    |-> OptimalRangeDisplay(biomarker_key, rules, optimal_min, optimal_max),
              status           |-> st[1],
              status_category  |-> st[2],
              is_optimal       |-> st[2] = "optimal"]

\* the record analyze_report appends for a key without rules (app.py 1387-1397)
UnknownRecord(biomarker_key, value) ==
    [key              |-> biomarker_key,
     name             |-> Title(biomarker_key),
     value            |-> value,
     unit             |-> "",
     acceptable_range |-> "Not defined",
     optimal_range    |-> [prefix |-> "Not defined", lo |-> 0, hi |-> 0],
     status           |-> "Detected",
     status_category  |-> "unknown",
     is_optimal       |-> FALSE]

---------------------------------------------------------------------------
(* DISEASE_RULES (app.py 277-515), in the order of the dict.  A condition's *)
(* value is <<threshold>>, or <<lo, hi>> for 'between'.                     *)

Cond(biomarker, operator, value) ==
    [biomarker |-> biomarker, operator |-> operator, value |-> value]

Rule(key, name, conditions, logic, priority) ==
    [key |-> key, name |-> name, conditions |-> conditions, logic |-> logic,
     priority |-> priority]

DISEASE_RULES ==
    << Rule("diabetes_type_2", "Type 2 Diabetes",
            <<Cond("glucose", ">=", <<Num(12600)>>), Cond("hba1c", ">=", <<Num(650)>>)>>,
            "OR", "High Risk"),
       Rule("prediabetes", "Prediabetes",
            <<Cond("glucose", "between", <<Num(10000), Num(12500)>>),
              Cond("hba1c", "between", <<Num(570), Num(640)>>)>>,
            "OR", "Medium Risk"),
       Rule("high_glucose", "Elevated Blood Glucose",
            <<Cond("glucose", "between", <<Num(11000), Num(12500)>>)>>,
            "AND", "Medium Risk"),
       Rule("cardiovascular_risk", "Cardiovascular Disease Risk",
            <<Cond("total_cholesterol", ">=", <<Num(24000)>>),
              Cond("ldl", ">=", <<Num(16000)>>),
              Cond("hdl", "<=", <<Num(3500)>>)>>,
            "OR", "High Risk"),
       Rule("moderate_cardiovascular_risk", "Moderate Cardiovascular Risk",
            <<Cond("total_cholesterol", "between", <<Num(20000), Num(23900)>>),
              Cond("ldl", "between", <<Num(13000), Num(15900)>>),
              Cond("hdl", "between", <<Num(3500), Num(4500)>>)>>,
            "OR", "Medium Risk"),
       Rule("high_cholesterol", "High Cholesterol",
            <<Cond("total_cholesterol", ">=", <<Num(20000)>>)>>,
            "AND", "Medium Risk"),
       Rule("iron_deficiency_anemia", "Iron Deficiency Anemia",
            <<Cond("hemoglobin", "<", <<Num(1200)>>), Cond("hematocrit", "<", <<Num(3600)>>)>>,
            "OR", "Medium Risk"),
       Rule("mild_anemia", "Mild Anemia",
            <<Cond("hemoglobin", "between", <<Num(1200), Num(1350)>>),
              Cond("hematocrit", "between", <<Num(3600), Num(4000)>>)>>,
            "OR", "Low Risk"),
       Rule("hypothyroidism", "Hypothyroidism",
            <<Cond("tsh", ">", <<Num(400)>>)>>, "AND", "Medium Risk"),
       Rule("borderline_hypothyroidism", "Borderline Hypothyroidism",
            <<Cond("tsh", "between", <<Num(300), Num(400)>>)>>, "AND", "Low Risk"),
       Rule("hyperthyroidism", "Hyperthyroidism",
            <<Cond("tsh", "<", <<Num(40)>>)>>, "AND", "Medium Risk"),
       Rule("metabolic_syndrome_risk", "Metabolic Syndrome Risk",
            <<Cond("glucose", ">=", <<Num(10000)>>),
              Cond("hdl", "<=", <<Num(5000)>>),
              Cond("total_cholesterol", ">=", <<Num(20000)>>)>>,
            "AND", "High Risk"),
       Rule("vitamin_d_deficiency", "Vitamin D Deficiency",
            <<Cond("vitamin_d", "<", <<Num(2000)>>)>>, "AND", "Medium Risk"),
       Rule("vitamin_d_insufficiency", "Vitamin D Insufficiency",
            <<Cond("vitamin_d", "between", <<Num(2000), Num(2900)>>)>>, "AND", "Low Risk"),
       Rule("vitamin_b12_deficiency", "Vitamin B12 Deficiency",
            <<Cond("vitamin_b12", "<", <<Num(20000)>>)>>, "AND", "High Risk"),
       Rule("low_vitamin_c", "Vitamin C Deficiency",
            <<Cond("vitamin_c", "<", <<Num(60)>>)>>, "AND", "Medium Risk"),
       Rule("hypertension_stage_1", "Stage 1 Hypertension",
            <<Cond("systolic_bp", "between", <<Num(13000), Num(13900)>>),
              Cond("diastolic_bp", "between", <<Num(8000), Num(8900)>>)>>,
            "OR", "Medium Risk"),
       Rule("hypertension_stage_2", "Stage 2 Hypertension",
            <<Cond("systolic_bp", ">=", <<Num(14000)>>),
              Cond("diastolic_bp", ">=", <<Num(9000)>>)>>,
            "OR", "High Risk"),
       Rule("hypotension", "Low Blood Pressure (Hypotension)",
            <<Cond("systolic_bp", "<", <<Num(9000)>>),
              Cond("diastolic_bp", "<", <<Num(6000)>>)>>,
            "OR", "Medium Risk"),
       Rule("tachycardia", "Tachycardia (Rapid Heart Rate)",
            <<Cond("heart_rate", ">", <<Num(10000)>>)>>, "AND", "Medium Risk"),
       Rule("bradycardia", "Bradycardia (Slow Heart Rate)",
            <<Cond("heart_rate", "<", <<Num(6000)>>)>>, "AND", "Low Risk"),
       Rule("kidney_dysfunction", "Kidney Dysfunction",
            <<Cond("creatinine", ">", <<Num(130)>>)>>, "AND", "High Risk") >>

---------------------------------------------------------------------------
(* The registries BIOMARKER_RULES, DISEASE_RULES and RECOMMENDATION_TEMPLATES *)
(* are module-level dicts (app.py 46, 277, 518) that every request reads.     *)
(* registry_writes lists the statements executed so far that assign into one  *)
(* of them or call a mutating method on one of their objects; a registry      *)
(* differs from its initial value only by such a statement.                   *)

RegistryNames == {"BIOMARKER_RULES", "DISEASE_RULES", "RECOMMENDATION_TEMPLATES"}

\* mutant: the buckets of generate_recommendations start as the lists of the
\* template, so that the update of a bucket writes into the template
RegistryWritesShared(operation) ==
    IF operation = "generate_recommendations"
    THEN <<[registry |-> "RECOMMENDATION_TEMPLATES", statement |-> "update"]>>
    ELSE <<>>

\* the writes of one operation.  The operations use the registries through
\* .items(), .get(), subscripts and `in` only (app.py 850, 923, 1021,
\* 1050-1051, 1161, 1169-1170, 1246-1247, 1253); what they append to, update
\* or sort are their own locals (results, detected_diseases, symptoms,
\* symptoms_list, recommendations, all_biomarkers), into which registry
\* strings and numbers are copied and of a registry list only a slice or
\* the elements (app.py 1163, 1249, 1255)
RegistryWrites(operation) == <<>>

---------------------------------------------------------------------------
(* Disease Rule Evaluator (app.py 991-1075).                                *)

\* mutant: 'between' exclusive of its upper end, '<' taken as '<='
evaluate_disease_condition_loose(cond, biomarkers) ==
    LET biomarker_key == cond.biomarker
        operator      == cond.operator
        threshold     == cond.value
    IN  IF biomarker_key \notin DOMAIN biomarkers THEN FALSE
        ELSE LET value == biomarkers[biomarker_key]
             IN  CASE operator = ">="      -> Le(threshold[1], value)
                   [] operator = "<="      -> Le(value, threshold[1])
                   [] operator = ">"       -> Lt(threshold[1], value)
                   [] operator = "<"       -> Le(value, threshold[1])
                   [] operator \in {"==", "="} -> Eq(value, threshold[1])
                   [] operator = "between" -> Le(threshold[1], value) /\ Lt(value, threshold[2])
                   [] OTHER                -> FALSE

evaluate_disease_condition(cond, biomarkers) ==
    LET biomarker_key == cond.biomarker
        operator      == cond.operator
        threshold     == cond.value
    IN  IF biomarker_key \notin DOMAIN biomarkers THEN FALSE
        ELSE LET value == biomarkers[biomarker_key]
             IN  CASE operator = ">="      -> Le(threshold[1], value)
                   [] operator = "<="      -> Le(value, threshold[1])
                   [] operator = ">"       -> Lt(threshold[1], value)
                   [] operator = "<"       -> Lt(value, threshold[1])
                   [] operator \in {"==", "="} -> Eq(value, threshold[1])
                   [] operator = "between" -> Le(threshold[1], value) /\ Le(value, threshold[2])
                   [] OTHER                -> FALSE

\* condition_results (app.py 1026-1029)
ConditionResults(disease_info, biomarkers) ==
    [i \in 1..Len(disease_info.conditions) |->
        evaluate_disease_condition(disease_info.conditions[i], biomarkers)]

\* mutant: every rule combined with any(), whatever its logic
DiseaseDetectedAny(disease_info, biomarkers) ==
    LET condition_results == ConditionResults(disease_info, biomarkers)
    IN  \E i \in DOMAIN condition_results : condition_results[i]

\* disease_detected (app.py 1031-1037)
DiseaseDetected(disease_info, biomarkers) ==
    LET condition_results == ConditionResults(disease_info, biomarkers)
    IN  IF disease_info.logic = "AND"
        THEN \A i \in DOMAIN condition_results : condition_results[i]
        ELSE IF disease_info.logic = "OR"
        THEN \E i \in DOMAIN condition_results : condition_results[i]
        ELSE FALSE

Detected(disease_info) ==
    [name |-> disease_info.name, priority |-> disease_info.priority]

RECURSIVE RuleLoop(_, _)
\* the loop over DISEASE_RULES.items() from rule i on (app.py 1021-1044)
RuleLoop(i, biomarkers) ==
    IF i > Len(DISEASE_RULES) THEN <<>>
    ELSE (IF DiseaseDetected(DISEASE_RULES[i], biomarkers)
          THEN <<Detected(DISEASE_RULES[i])>> ELSE <<>>)
         \o RuleLoop(i + 1, biomarkers)

RECURSIVE AllOptimalLoopAcceptable(_, _)
\* mutant: the loop tests the acceptable range in place of the optimal band
AllOptimalLoopAcceptable(ks, biomarkers) ==
    IF ks = <<>> THEN TRUE
    ELSE LET biomarker_key == Head(ks)
             value         == biomarkers[biomarker_key]
         IN  IF biomarker_key \in DOMAIN BIOMARKER_RULES
             THEN LET rules == BIOMARKER_RULES[biomarker_key]
                  IN  IF ~(Le(rules.acceptable_min, value) /\ Le(value, rules.acceptable_max))
                      THEN FALSE
                      ELSE AllOptimalLoopAcceptable(Tail(ks), biomarkers)
             ELSE AllOptimalLoopAcceptable(Tail(ks), biomarkers)

RECURSIVE AllOptimalLoop(_, _)
\* the all_optimal loop over the keys ks of biomarkers (app.py 1048-1055)
AllOptimalLoop(ks, biomarkers) ==
    IF ks = <<>> THEN TRUE
    ELSE LET biomarker_key == Head(ks)
             value         == biomarkers[biomarker_key]
         IN  IF biomarker_key \in DOMAIN BIOMARKER_RULES
             THEN LET rules == BIOMARKER_RULES[biomarker_key]
                      opt   == calculate_optimal_range(rules.acceptable_min, rules.acceptable_max)
                  IN  IF ~(Le(opt[1], value) /\ Le(value, opt[2]))
                      THEN FALSE
                      ELSE AllOptimalLoop(Tail(ks), biomarkers)
             ELSE AllOptimalLoop(Tail(ks), biomarkers)

EverythingFine == [name |-> "Everything Fine", priority |-> "Excellent Health"]

HealthMonitoring == [name |-> "Health Monitoring Recommended", priority |-> "Monitor"]

\* mutant: the fallback entry appended whether or not a rule fired
WithFallbackAlways(detected, biomarkers) ==
    detected \o (IF AllOptimalLoop(KeysOf(biomarkers), biomarkers)
                 THEN <<EverythingFine>> ELSE <<HealthMonitoring>>)

\* the fallback entry (app.py 1047-1069)
WithFallback(detected, biomarkers) ==
    IF detected = <<>>
    THEN IF AllOptimalLoop(KeysOf(biomarkers), biomarkers)
         THEN detected \o <<EverythingFine>>
         ELSE detected \o <<HealthMonitoring>>
    ELSE detected

\* priority_order.get(x['priority'], 5) (app.py 1072-1073)
PriorityKey(x) ==
    CASE x.priority = "High Risk"        -> 0
      [] x.priority = "Medium Risk"      -> 1
      [] x.priority = "Low Risk"         -> 2
      [] x.priority = "Monitor"          -> 3
      [] x.priority = "Excellent Health" -> 4
      [] OTHER                           -> 5

\* s with x inserted after the last element whose key is <= the key of x
RECURSIVE InsertStable(_, _)
InsertStable(s, x) ==
    IF s = <<>> THEN <<x>>
    ELSE IF PriorityKey(Head(s)) <= PriorityKey(x)
         THEN <<Head(s)>> \o InsertStable(Tail(s), x)
         ELSE <<x>> \o s

RECURSIVE SortFrom(_, _)
SortFrom(sorted, rest) ==
    IF rest = <<>> THEN sorted
    ELSE SortFrom(InsertStable(sorted, Head(rest)), Tail(rest))

\* mutant: the list returned in rule order, the sort left out
SortByPriorityNone(detected) == detected

\* list.sort(key=...) (app.py 1073): a stable sort by PriorityKey
SortByPriority(detected) == SortFrom(<<>>, detected)

detect_diseases(biomarkers) ==
    SortByPriority(WithFallback(RuleLoop(1, biomarkers), biomarkers))

---------------------------------------------------------------------------
(* Symptom Aggregator: get_symptoms (app.py 1077-1221).                     *)

\* the names of conditions a caller may pass that no rule carries
OtherNames == {"Diabetes With Thyroid Disorder", "Cardiovascular Anemia"}

\* name.lower()
Lower(name) ==
    CASE name = "Type 2 Diabetes" -> "type 2 diabetes"
      [] name = "Prediabetes" -> "prediabetes"
      [] name = "Elevated Blood Glucose" -> "elevated blood glucose"
      [] name = "Cardiovascular Disease Risk" -> "cardiovascular disease risk"
      [] name = "Moderate Cardiovascular Risk" -> "moderate cardiovascular risk"
      [] name = "High Cholesterol" -> "high cholesterol"
      [] name = "Iron Deficiency Anemia" -> "iron deficiency anemia"
      [] name = "Mild Anemia" -> "mild anemia"
      [] name = "Hypothyroidism" -> "hypothyroidism"
      [] name = "Borderline Hypothyroidism" -> "borderline hypothyroidism"
      [] name = "Hyperthyroidism" -> "hyperthyroidism"
      [] name = "Metabolic Syndrome Risk" -> "metabolic syndrome risk"
      [] name = "Vitamin D Deficiency" -> "vitamin d deficiency"
      [] name = "Vitamin D Insufficiency" -> "vitamin d insufficiency"
      [] name = "Vitamin B12 Deficiency" -> "vitamin b12 deficiency"
      [] name = "Vitamin C Deficiency" -> "vitamin c deficiency"
      [] name = "Stage 1 Hypertension" -> "stage 1 hypertension"
      [] name = "Stage 2 Hypertension" -> "stage 2 hypertension"
      [] name = "Low Blood Pressure (Hypotension)" -> "low blood pressure (hypotension)"
      [] name = "Tachycardia (Rapid Heart Rate)" -> "tachycardia (rapid heart rate)"
      [] name = "Bradycardia (Slow Heart Rate)" -> "bradycardia (slow heart rate)"
      [] name = "Kidney Dysfunction" -> "kidney dysfunction"
      [] name = "Everything Fine" -> "everything fine"
      [] name = "Health Monitoring Recommended" -> "health monitoring recommended"
      [] name = "Diabetes With Thyroid Disorder" -> "diabetes with thyroid disorder"
      [] name = "Cardiovascular Anemia" -> "cardiovascular anemia"

\* disease_info.get('symptoms', []) of the rule with this key (app.py 277-515)
RuleSymptoms(disease_key) ==
    CASE disease_key = "diabetes_type_2" ->
          <<"Increased thirst", "Frequent urination", "Fatigue",
            "Blurred vision", "Slow wound healing", "Unexplained weight loss">>
      [] disease_key = "prediabetes" ->
          <<"Mild fatigue", "Occasional increased thirst",
            "Slight weight changes", "Increased appetite">>
      [] disease_key = "high_glucose" ->
          <<"Mild fatigue", "Increased thirst", "Frequent urination",
            "Sugar cravings">>
      [] disease_key = "cardiovascular_risk" ->
          <<"Chest pain", "Shortness of breath", "Fatigue",
            "Leg pain when walking", "Dizziness">>
      [] disease_key = "moderate_cardiovascular_risk" ->
          <<"Mild chest discomfort", "Occasional fatigue",
            "Exercise intolerance", "Mild shortness of breath">>
      [] disease_key = "high_cholesterol" ->
          <<"No obvious symptoms", "Potential fatigue",
            "Chest tightness during exercise">>
      [] disease_key = "iron_deficiency_anemia" ->
          <<"Fatigue", "Weakness", "Pale skin", "Cold hands and feet",
            "Restless legs", "Brittle nails">>
      [] disease_key = "mild_anemia" ->
          <<"Mild fatigue", "Occasional weakness", "Slight pale appearance">>
      [] disease_key = "hypothyroidism" ->
          <<"Fatigue", "Weight gain", "Cold sensitivity", "Dry skin",
            "Hair loss", "Depression", "Constipation">>
      [] disease_key = "borderline_hypothyroidism" ->
          <<"Mild fatigue", "Slight weight gain", "Mild cold sensitivity">>
      [] disease_key = "hyperthyroidism" ->
          <<"Weight loss", "Rapid heartbeat", "Nervousness", "Sweating",
            "Heat sensitivity", "Irritability">>
      [] disease_key = "metabolic_syndrome_risk" ->
          <<"Abdominal weight gain", "Fatigue", "Increased thirst",
            "High blood pressure symptoms">>
      [] disease_key = "vitamin_d_deficiency" ->
          <<"Bone pain", "Muscle weakness", "Frequent infections", "Fatigue",
            "Depression", "Hair loss">>
      [] disease_key = "vitamin_d_insufficiency" ->
          <<"Mild fatigue", "Occasional muscle aches",
            "Susceptibility to colds">>
      [] disease_key = "vitamin_b12_deficiency" ->
          <<"Extreme fatigue", "Memory problems", "Confusion",
            "Tingling in hands/feet", "Balance issues", "Pale skin">>
      [] disease_key = "low_vitamin_c" ->
          <<"Easy bruising", "Slow wound healing", "Joint pain", "Tooth loss",
            "Bleeding gums">>
      [] disease_key = "hypertension_stage_1" ->
          <<"Headaches", "Dizziness", "Shortness of breath", "Nosebleeds",
            "Flushing">>
      [] disease_key = "hypertension_stage_2" ->
          <<"Severe headaches", "Chest pain", "Vision problems",
            "Difficulty breathing", "Irregular heartbeat">>
      [] disease_key = "hypotension" ->
          <<"Dizziness", "Fainting", "Fatigue", "Nausea", "Cold/clammy skin",
            "Blurred vision">>
      [] disease_key = "tachycardia" ->
          <<"Palpitations", "Shortness of breath", "Dizziness", "Chest pain",
            "Fatigue">>
      [] disease_key = "bradycardia" ->
          <<"Fatigue", "Dizziness", "Weakness", "Confusion", "Fainting spells">>
      [] disease_key = "kidney_dysfunction" ->
          <<"Decreased urination", "Swelling in legs/ankles", "Fatigue",
            "Nausea", "Confusion">>

\* d.get(key, []) of a dict of lists
Get(d, key) == IF key \in DOMAIN d THEN d[key] ELSE <<>>

\* the table general_symptoms (app.py 1082-1148)
general_symptoms ==
    ("glucose" :> (
        ("high" :>
            <<"Increased thirst", "Frequent urination", "Fatigue",
              "Blurred vision">>)
        @@ ("borderline" :>
            <<"Mild fatigue", "Occasional thirst", "Sugar cravings">>)))
    @@ ("total_cholesterol" :> (
        ("high" :>
            <<"No obvious symptoms initially", "Potential chest discomfort",
              "Exercise fatigue">>)
        @@ ("borderline" :>
            <<"Mild exercise intolerance", "Occasional fatigue">>)))
    @@ ("ldl" :> (
        ("high" :>
            <<"Chest tightness during exercise", "Shortness of breath",
              "Fatigue">>)
        @@ ("borderline" :>
            <<"Mild chest discomfort during activity">>)))
    @@ ("hdl" :> (
        ("low" :>
            <<"Increased cardiovascular risk symptoms", "Exercise intolerance">>)
        @@ ("borderline" :>
            <<"Mild fatigue during physical activity">>)))
    @@ ("hemoglobin" :> (
        ("low" :>
            <<"Fatigue", "Weakness", "Pale skin", "Cold hands and feet",
              "Shortness of breath">>)
        @@ ("borderline" :>
            <<"Mild fatigue", "Occasional weakness", "Slight paleness">>)))
    @@ ("hematocrit" :> (
        ("low" :>
            <<"Fatigue", "Weakness", "Dizziness", "Cold sensitivity">>)
        @@ ("borderline" :>
            <<"Mild fatigue", "Occasional dizziness">>)))
    @@ ("tsh" :> (
        ("high" :>
            <<"Fatigue", "Weight gain", "Cold sensitivity", "Dry skin",
              "Hair thinning">>)
        @@ ("low" :>
            <<"Weight loss", "Rapid heartbeat", "Nervousness", "Sweating",
              "Heat sensitivity">>)
        @@ ("borderline_high" :>
            <<"Mild fatigue", "Slight weight gain", "Mild cold sensitivity">>)
        @@ ("borderline_low" :>
            <<"Mild nervousness", "Slight weight loss",
              "Mild heat sensitivity">>)))
    @@ ("hba1c" :> (
        ("high" :>
            <<"Fatigue", "Increased thirst", "Frequent urination",
              "Slow healing">>)
        @@ ("borderline" :>
            <<"Mild fatigue", "Occasional increased appetite">>)))
    @@ ("vitamin_d" :> (
        ("low" :>
            <<"Bone pain", "Muscle weakness", "Frequent infections",
              "Depression">>)
        @@ ("borderline" :>
            <<"Mild fatigue", "Occasional muscle aches">>)))
    @@ ("vitamin_b12" :> (
        ("low" :>
            <<"Extreme fatigue", "Memory problems", "Tingling in hands/feet",
              "Balance issues">>)
        @@ ("borderline" :>
            <<"Mild fatigue", "Occasional memory lapses">>)))
    @@ ("vitamin_c" :> (
        ("low" :>
            <<"Easy bruising", "Slow wound healing", "Bleeding gums",
              "Joint pain">>)
        @@ ("borderline" :>
            <<"Mild bruising", "Slower healing">>)))
    @@ ("systolic_bp" :> (
        ("high" :>
            <<"Headaches", "Dizziness", "Shortness of breath", "Chest pain">>)
        @@ ("low" :>
            <<"Dizziness", "Fainting", "Fatigue">>)
        @@ ("borderline" :>
            <<"Mild headaches", "Occasional dizziness">>)))
    @@ ("diastolic_bp" :> (
        ("high" :>
            <<"Headaches", "Dizziness", "Blurred vision">>)
        @@ ("low" :>
            <<"Light-headedness", "Weakness">>)
        @@ ("borderline" :>
            <<"Mild dizziness">>)))
    @@ ("heart_rate" :> (
        ("high" :>
            <<"Palpitations", "Shortness of breath", "Chest discomfort",
              "Dizziness">>)
        @@ ("low" :>
            <<"Fatigue", "Dizziness", "Weakness">>)
        @@ ("borderline" :>
            <<"Mild palpitations", "Occasional fatigue">>)))
    @@ ("creatinine" :> (
        ("high" :>
            <<"Decreased urination", "Swelling in legs/ankles", "Fatigue",
              "Nausea">>)
        @@ ("borderline" :>
            <<"Mild fatigue", "Occasional swelling">>)))

\* the messages for a report without symptoms (app.py 1193-1199)
PositiveHealthMessages ==
    <<"All biomarkers within optimal ranges - no symptoms to monitor",
      "Excellent overall health indicators",
      "Continue current healthy lifestyle practices",
      "Maintain regular health check-ups",
      "Stay active and eat a balanced diet">>

\* the messages when a finding brought no symptom (app.py 1202-1208)
MonitoringMessages ==
    <<"Monitor general health indicators regularly",
      "Maintain healthy lifestyle practices",
      "Follow up with healthcare provider as needed",
      "Stay hydrated and get adequate sleep",
      "Continue regular exercise routine">>

\* the guidance that pads a short list (app.py 1215-1219)
GuidanceMessages ==
    <<"Regular health monitoring recommended",
      "Maintain balanced nutrition and exercise",
      "Consult healthcare provider for personalized advice">>

\* every string a set of get_symptoms or generate_recommendations can hold
SetStrings ==
    <<"Increased thirst", "Frequent urination", "Fatigue", "Blurred vision",
      "Slow wound healing", "Unexplained weight loss", "Mild fatigue",
      "Occasional increased thirst", "Slight weight changes",
      "Increased appetite", "Sugar cravings", "Chest pain",
      "Shortness of breath", "Leg pain when walking", "Dizziness",
      "Mild chest discomfort", "Occasional fatigue", "Exercise intolerance",
      "Mild shortness of breath", "No obvious symptoms", "Potential fatigue",
      "Chest tightness during exercise", "Weakness", "Pale skin",
      "Cold hands and feet", "Restless legs", "Brittle nails",
      "Occasional weakness", "Slight pale appearance", "Weight gain",
      "Cold sensitivity", "Dry skin", "Hair loss", "Depression",
      "Constipation", "Slight weight gain", "Mild cold sensitivity",
      "Weight loss", "Rapid heartbeat", "Nervousness", "Sweating",
      "Heat sensitivity", "Irritability", "Abdominal weight gain",
      "High blood pressure symptoms", "Bone pain", "Muscle weakness",
      "Frequent infections", "Occasional muscle aches",
      "Susceptibility to colds", "Extreme fatigue", "Memory problems",
      "Confusion", "Tingling in hands/feet", "Balance issues", "Easy bruising",
      "Joint pain", "Tooth loss", "Bleeding gums", "Headaches", "Nosebleeds",
      "Flushing", "Severe headaches", "Vision problems",
      "Difficulty breathing", "Irregular heartbeat", "Fainting", "Nausea",
      "Cold/clammy skin", "Palpitations", "Fainting spells",
      "Decreased urination", "Swelling in legs/ankles", "Occasional thirst",
      "No obvious symptoms initially", "Potential chest discomfort",
      "Exercise fatigue", "Mild exercise intolerance",
      "Mild chest discomfort during activity",
      "Increased cardiovascular risk symptoms",
      "Mild fatigue during physical activity", "Slight paleness",
      "Occasional dizziness", "Hair thinning", "Mild nervousness",
      "Slight weight loss", "Mild heat sensitivity", "Slow healing",
      "Occasional increased appetite", "Occasional memory lapses",
      "Mild bruising", "Slower healing", "Mild headaches", "Light-headedness",
      "Mild dizziness", "Chest discomfort", "Mild palpitations",
      "Occasional swelling">>
    \o PositiveHealthMessages \o MonitoringMessages
    \o
    <<"Schedule an appointment with an endocrinologist",
      "Regular monitoring with your primary care physician",
      "Consider diabetes education classes", "Follow a low-carbohydrate diet",
      "Monitor portion sizes and meal timing", "Increase fiber intake",
      "Limit sugar and processed foods",
      "Engage in regular physical activity (150 minutes/week)",
      "Monitor blood glucose regularly", "Maintain a healthy weight",
      "Manage stress levels", "Consult with a cardiologist",
      "Discuss statin therapy with your doctor",
      "Regular blood pressure monitoring",
      "Adopt a Mediterranean or DASH diet", "Reduce saturated and trans fats",
      "Increase omega-3 fatty acids", "Limit sodium intake",
      "Regular aerobic exercise", "Quit smoking if applicable",
      "Limit alcohol consumption", "See a hematologist for further evaluation",
      "Investigate underlying causes of iron deficiency",
      "Regular follow-up blood tests",
      "Increase iron-rich foods (lean meats, spinach, beans)",
      "Combine iron foods with vitamin C sources",
      "Consider iron supplements as prescribed",
      "Avoid coffee and tea with iron-rich meals", "Adequate rest and sleep",
      "Gradual increase in physical activity", "Monitor symptoms closely",
      "Consult with an endocrinologist", "Regular thyroid function monitoring",
      "Discuss medication options", "Ensure adequate iodine intake",
      "Consider selenium-rich foods", "Maintain a balanced diet",
      "Regular sleep schedule", "Monitor symptoms",
      "Annual physical examination", "Regular preventive screenings",
      "Discuss any concerns with your healthcare provider",
      "Maintain a balanced, nutritious diet", "Stay hydrated",
      "Limit processed foods", "Regular physical activity",
      "Adequate sleep (7-9 hours)", "Stress management",
      "Avoid tobacco and limit alcohol">>

\* the statuses the disease loop skips (app.py 1156)
GenericStatusNames == {"everything fine", "health monitoring recommended"}

RECURSIVE FindRule(_, _)
\* the first rule from i on whose lowercased name is disease_name, 0 when
\* there is none (app.py 1161-1164)
FindRule(i, disease_name) ==
    IF i > Len(DISEASE_RULES) THEN 0
    ELSE IF Lower(DISEASE_RULES[i].name) = disease_name THEN i
    ELSE FindRule(i + 1, disease_name)

\* mutant: a rule's symptoms are taken only for a High Risk condition
DiseaseStepHighOnly(disease) ==
    LET disease_name == Lower(disease.name)
        i            == FindRule(1, disease_name)
    IN  IF disease_name \in GenericStatusNames
        THEN [added |-> {}, flag |-> FALSE]
        ELSE [added |-> IF i = 0 \/ disease.priority # "High Risk" THEN {}
                        ELSE SeqToSet(RuleSymptoms(DISEASE_RULES[i].key)),
              flag  |-> TRUE]

\* one pass of the loop over detected_diseases: the symptoms it adds and
\* whether it sets disease_symptoms_added (app.py 1153-1164)
DiseaseStep(disease) ==
    LET disease_name == Lower(disease.name)
        i            == FindRule(1, disease_name)
    IN  IF disease_name \in GenericStatusNames
        THEN [added |-> {}, flag |-> FALSE]
        ELSE [added |-> IF i = 0 THEN {}
                        ELSE SeqToSet(RuleSymptoms(DISEASE_RULES[i].key)),
              flag  |-> TRUE]

RECURSIVE DiseaseLoop(_)
\* for disease in detected_diseases (app.py 1151-1164)
DiseaseLoop(detected) ==
    IF detected = <<>> THEN [added |-> {}, flag |-> FALSE]
    ELSE LET step == DiseaseStep(Head(detected))
             rest == DiseaseLoop(Tail(detected))
         IN  [added |-> step.added \cup rest.added, flag |-> step.flag \/ rest.flag]

\* mutant: the acceptable range is tested before the high threshold
SeveritySubsetRangeFirst(biomarker_key, value) ==
    LET rules == BIOMARKER_RULES[biomarker_key]
    IN  IF Lt(rules.acceptable_max, value) THEN "borderline"
        ELSE IF Le(rules.high_threshold, value) THEN "high"
        ELSE IF Lt(value, rules.acceptable_min) THEN "low"
        ELSE IF biomarker_key = "tsh" /\ Lt(Num(300), value) THEN "borderline_high"
        ELSE IF biomarker_key = "hdl" /\ Lt(value, Num(5000)) THEN "borderline"
        ELSE "none"

\* the subset of general_symptoms[biomarker_key] the chain of tests selects,
\* "none" when no branch is taken (app.py 1172-1189)
SeveritySubset(biomarker_key, value) ==
    LET rules == BIOMARKER_RULES[biomarker_key]
    IN  IF Le(rules.high_threshold, value) THEN "high"
        ELSE IF Lt(rules.acceptable_max, value) THEN "borderline"
        ELSE IF Lt(value, rules.acceptable_min) THEN "low"
        ELSE IF biomarker_key = "tsh" /\ Lt(Num(300), value) THEN "borderline_high"
        ELSE IF biomarker_key = "hdl" /\ Lt(value, Num(5000)) THEN "borderline"
        ELSE "none"

\* one pass of the loop over biomarkers.items(): the symptoms it adds and
\* whether it sets biomarker_symptoms_added (app.py 1168-1189)
BiomarkerStep(biomarker_key, value) ==
    IF biomarker_key \in DOMAIN BIOMARKER_RULES /\ biomarker_key \in DOMAIN general_symptoms
    THEN LET subset == SeveritySubset(biomarker_key, value)
         IN  IF subset = "none" THEN [added |-> {}, flag |-> FALSE]
             ELSE [added |-> SeqToSet(Get(general_symptoms[biomarker_key], subset)),
                   flag  |-> TRUE]
    ELSE [added |-> {}, flag |-> FALSE]

RECURSIVE BiomarkerLoop(_, _)
\* for biomarker_key, value in biomarkers.items() (app.py 1167-1189)
BiomarkerLoop(ks, biomarkers) ==
    IF ks = <<>> THEN [added |-> {}, flag |-> FALSE]
    ELSE LET step == BiomarkerStep(Head(ks), biomarkers[Head(ks)])
             rest == BiomarkerLoop(Tail(ks), biomarkers)
         IN  [added |-> step.added \cup rest.added, flag |-> step.flag \/ rest.flag]

\* mutant: an empty set always gets the positive messages
WithHealthMessagesPositive(union, disease_symptoms_added, biomarker_symptoms_added) ==
    IF union = {} THEN SeqToSet(PositiveHealthMessages) ELSE union

\* the messages that replace an empty set (app.py 1192-1208)
WithHealthMessages(union, disease_symptoms_added, biomarker_symptoms_added) ==
    IF union = {} /\ ~disease_symptoms_added /\ ~biomarker_symptoms_added
    THEN SeqToSet(PositiveHealthMessages)
    ELSE IF union = {} THEN SeqToSet(MonitoringMessages)
    ELSE union

\* the number of iteration orders of a set that are tried
HashSeeds == 2

\* The order in which a set of strings is iterated is fixed by the hashes of
\* the strings, which differ from one interpreter to the next: an order is
\* one of the rotations of SetStrings, read backwards for an odd seed.
HashOrder(seed) ==
    LET n == Len(SetStrings)
    IN  [i \in 1..n |->
           SetStrings[(((IF seed % 2 = 1 THEN n - i ELSE i - 1) + 7 * seed) % n) + 1]]

\* list(s) of a set of strings
SetList(s, seed) == SelectSeq(HashOrder(seed), LAMBDA x : x \in s)

\* mutant: the list is returned whole
TruncateNever(list) == list

\* list[:15] (app.py 1211, 1221)
Truncate(list) == SubSeq(list, 1, IF Len(list) < 15 THEN Len(list) ELSE 15)

\* mutant: a list is padded only when it is empty
WithGuidanceEmptyOnly(symptoms_list) ==
    IF Len(symptoms_list) < 1 THEN symptoms_list \o GuidanceMessages ELSE symptoms_list

\* app.py 1214-1219
WithGuidance(symptoms_list) ==
    IF Len(symptoms_list) < 3 THEN symptoms_list \o GuidanceMessages ELSE symptoms_list

\* the set symptoms before the messages are substituted (app.py 1079-1189)
SymptomUnion(detected, biomarkers) ==
    DiseaseLoop(detected).added \cup BiomarkerLoop(KeysOf(biomarkers), biomarkers).added

get_symptoms(detected, biomarkers, seed) ==
    LET d             == DiseaseLoop(detected)
        b             == BiomarkerLoop(KeysOf(biomarkers), biomarkers)
        union         == WithHealthMessages(d.added \cup b.added, d.flag, b.flag)
        symptoms_list == Truncate(SetList(union, seed))
    IN  Truncate(WithGuidance(symptoms_list))

---------------------------------------------------------------------------
(* Recommendation Generator: generate_recommendations (app.py 1223-1258).   *)

\* RECOMMENDATION_TEMPLATES (app.py 518-610)
RECOMMENDATION_TEMPLATES ==
    ("diabetes_type_2" :> (
        ("Professional Consultation" :>
            <<"Schedule an appointment with an endocrinologist",
              "Regular monitoring with your primary care physician",
              "Consider diabetes education classes">>)
        @@ ("Dietary" :>
            <<"Follow a low-carbohydrate diet",
              "Monitor portion sizes and meal timing", "Increase fiber intake",
              "Limit sugar and processed foods">>)
        @@ ("Lifestyle" :>
            <<"Engage in regular physical activity (150 minutes/week)",
              "Monitor blood glucose regularly", "Maintain a healthy weight",
              "Manage stress levels">>)))
    @@ ("cardiovascular_risk" :> (
        ("Professional Consultation" :>
            <<"Consult with a cardiologist",
              "Discuss statin therapy with your doctor",
              "Regular blood pressure monitoring">>)
        @@ ("Dietary" :>
            <<"Adopt a Mediterranean or DASH diet",
              "Reduce saturated and trans fats",
              "Increase omega-3 fatty acids", "Limit sodium intake">>)
        @@ ("Lifestyle" :>
            <<"Regular aerobic exercise", "Quit smoking if applicable",
              "Maintain a healthy weight", "Limit alcohol consumption">>)))
    @@ ("iron_deficiency_anemia" :> (
        ("Professional Consultation" :>
            <<"See a hematologist for further evaluation",
              "Investigate underlying causes of iron deficiency",
              "Regular follow-up blood tests">>)
        @@ ("Dietary" :>
            <<"Increase iron-rich foods (lean meats, spinach, beans)",
              "Combine iron foods with vitamin C sources",
              "Consider iron supplements as prescribed",
              "Avoid coffee and tea with iron-rich meals">>)
        @@ ("Lifestyle" :>
            <<"Adequate rest and sleep",
              "Gradual increase in physical activity",
              "Monitor symptoms closely">>)))
    @@ ("thyroid_disorders" :> (
        ("Professional Consultation" :>
            <<"Consult with an endocrinologist",
              "Regular thyroid function monitoring",
              "Discuss medication options">>)
        @@ ("Dietary" :>
            <<"Ensure adequate iodine intake", "Consider selenium-rich foods",
              "Maintain a balanced diet">>)
        @@ ("Lifestyle" :>
            <<"Manage stress levels", "Regular sleep schedule",
              "Monitor symptoms">>)))
    @@ ("general_wellness" :> (
        ("Professional Consultation" :>
            <<"Annual physical examination", "Regular preventive screenings",
              "Discuss any concerns with your healthcare provider">>)
        @@ ("Dietary" :>
            <<"Maintain a balanced, nutritious diet", "Stay hydrated",
              "Limit processed foods">>)
        @@ ("Lifestyle" :>
            <<"Regular physical activity", "Adequate sleep (7-9 hours)",
              "Stress management", "Avoid tobacco and limit alcohol">>)))

\* substring in disease_name, for the lowercased names (app.py 1237-1243)
Contains(substring, disease_name) ==
    CASE substring = "diabetes" ->
          disease_name \in
            {"type 2 diabetes",
             "prediabetes",
             "diabetes with thyroid disorder"}
      [] substring = "cardiovascular" ->
          disease_name \in
            {"cardiovascular disease risk",
             "moderate cardiovascular risk",
             "cardiovascular anemia"}
      [] substring = "anemia" ->
          disease_name \in
            {"iron deficiency anemia",
             "mild anemia",
             "cardiovascular anemia"}
      [] substring = "thyroid" ->
          disease_name \in
            {"hypothyroidism",
             "borderline hypothyroidism",
             "hyperthyroidism",
             "diabetes with thyroid disorder"}

Categories == {"Professional Consultation", "Dietary", "Lifestyle"}

\* the template keys chosen for a name: template_key of the if/elif chain,
\* none when it stays None (app.py 1236-1244)
TemplateKeys(disease_name) ==
    IF Contains("diabetes", disease_name) THEN {"diabetes_type_2"}
    ELSE IF Contains("cardiovascular", disease_name) THEN {"cardiovascular_risk"}
    ELSE IF Contains("anemia", disease_name) THEN {"iron_deficiency_anemia"}
    ELSE IF Contains("thyroid", disease_name) THEN {"thyroid_disorders"}
    ELSE {}

\* what one detected disease adds to the bucket of a category (app.py 1246-1249)
TemplateItems(disease, category) ==
    UNION {SeqToSet(RECOMMENDATION_TEMPLATES[template_key][category]) :
             template_key \in TemplateKeys(Lower(disease.name))
                              \cap DOMAIN RECOMMENDATION_TEMPLATES}

RECURSIVE RecommendationLoop(_, _)
\* for disease in detected_diseases (app.py 1232-1249)
RecommendationLoop(detected, category) ==
    IF detected = <<>> THEN {}
    ELSE TemplateItems(Head(detected), category)
         \cup RecommendationLoop(Tail(detected), category)

\* items[:2] of the general template for an empty list (app.py 1252-1255)
GeneralWellness(detected, category) ==
    IF detected = <<>>
    THEN SeqToSet(SubSeq(RECOMMENDATION_TEMPLATES["general_wellness"][category], 1, 2))
    ELSE {}

RECURSIVE RecommendationsAppended(_, _)
\* buckets that are lists appended to, in place of sets updated
RecommendationsAppended(detected, seed) ==
    IF detected = <<>> THEN [category \in Categories |-> <<>>]
    ELSE LET rest == RecommendationsAppended(Tail(detected), seed)
             keys == TemplateKeys(Lower(Head(detected).name))
         IN  [category \in Categories |->
                (IF keys = {} THEN <<>>
                 ELSE RECOMMENDATION_TEMPLATES[CHOOSE k \in keys : TRUE][category])
                \o rest[category]]

\* the buckets are sets, listed at the end (app.py 1225-1229, 1258)
generate_recommendations(detected, seed) ==
    [category \in Categories |->
        SetList(RecommendationLoop(detected, category)
                \cup GeneralWellness(detected, category), seed)]

---------------------------------------------------------------------------
(* extract_numbers_from_text (app.py 620-666).  The text is modelled by the  *)
(* matches re.findall returns for the six patterns, in the order the loops   *)
(* visit them: a match is the tuple of its groups, label, numeric portion    *)
(* and, but for the last pattern, unit.                                      *)

\* context.strip().lower() (app.py 654), for the labels the model draws from
StripLower(context) ==
    CASE context = "Glucose"       -> "glucose"
      [] context = "Glucose level" -> "glucose level"
      [] context = "TSH "          -> "tsh"
      [] context = " Hb"           -> "hb"
      [] context = "   "           -> ""

\* float(value_str) in 1/100 (app.py 655): the numeric group [0-9]+\.?[0-9]*
\* always parses; the empty string is one that does not
FloatOf(value_str) ==
    CASE value_str = "126" -> [ok |-> TRUE, value |-> 12600]
      [] value_str = "5.7" -> [ok |-> TRUE, value |-> 570]
      [] value_str = "12." -> [ok |-> TRUE, value |-> 1200]
      [] value_str = ""    -> [ok |-> FALSE, value |-> 0]

\* mutant: every label that is not empty is kept
ExtractStepAnyLabel(match) ==
    IF Len(match) \notin {2, 3} THEN <<>>
    ELSE LET context == StripLower(match[1])
             parsed  == FloatOf(match[2])
             unit    == IF Len(match) = 3 THEN match[3] ELSE ""
         IN  IF ~parsed.ok THEN <<>>
             ELSE IF Len(context) >= 1
                  THEN <<[context |-> context, value |-> parsed.value, unit |-> unit]>>
                  ELSE <<>>

\* the body of the loop over the matches: what one match appends to results
\* (app.py 645-664); the units the patterns capture hold no white space, so
\* unit.strip() leaves them as they are
ExtractStep(match) ==
    IF Len(match) \notin {2, 3} THEN <<>>
    ELSE LET context == StripLower(match[1])
             parsed  == FloatOf(match[2])
             unit    == IF Len(match) = 3 THEN match[3] ELSE ""
         IN  IF ~parsed.ok THEN <<>>
             ELSE IF Len(context) >= 3
                  THEN <<[context |-> context, value |-> parsed.value, unit |-> unit]>>
                  ELSE <<>>

RECURSIVE extract_numbers_from_text(_)
\* for pattern in patterns: for match in matches (app.py 641-664)
extract_numbers_from_text(matches) ==
    IF matches = <<>> THEN <<>>
    ELSE ExtractStep(Head(matches)) \o extract_numbers_from_text(Tail(matches))

---------------------------------------------------------------------------
(* The readers of one source: parse_csv_file (app.py 668-728) for a table,  *)
(* standardize_biomarkers (app.py 828-908) for the text of a PDF or image.  *)
(* A table is the sequence of its rows after the header, a text the         *)
(* sequence of candidates extract_numbers_from_text returns for it.         *)

\* row[name_col].strip().lower().replace(' ', '_').replace('-', '_')
\* (app.py 712, 717)
CsvName(name) ==
    CASE name = "LDL Cholesterol" -> "ldl_cholesterol"
      [] name = "ldl_cholesterol" -> "ldl_cholesterol"
      [] name = "hdl-cholesterol" -> "hdl_cholesterol"
      [] name = " Glucose "       -> "glucose"

RECURSIVE parse_csv_file(_)
\* for row in reader: a row whose value is no number is skipped, a later row
\* of the same name replaces the earlier one (app.py 709-723)
parse_csv_file(rows) ==
    IF rows = <<>> THEN <<>>
    ELSE LET row  == rows[Len(rows)]
             rest == parse_csv_file(SubSeq(rows, 1, Len(rows) - 1))
         IN  IF row.numeric
             THEN (CsvName(row.name) :> row.value) @@ rest
             ELSE rest

\* The test of app.py 853-877 for a registry key and a context: some keyword of
\* the key and some variation of the context contain one another.  Evaluated
\* for the contexts the model draws from (keywords of app.py 46-274): 'glucose'
\* and 'fasting glucose level' hold the keyword 'glucose'; 'cholesterol' lies
\* in 'total cholesterol', 'ldl cholesterol' and 'hdl cholesterol';
\* 'hemoglobin' is a keyword and lies in 'hemoglobin a1c'; 'patient age' has
\* no keyword.
ContextMatches(biomarker_key, context) ==
    CASE context = "glucose"               -> biomarker_key = "glucose"
      [] context = "fasting glucose level" -> biomarker_key = "glucose"
      [] context = "cholesterol"           -> biomarker_key \in {"total_cholesterol", "ldl", "hdl"}
      [] context = "hemoglobin"            -> biomarker_key \in {"hba1c", "hemoglobin"}
      [] context = "patient age"           -> FALSE

RECURSIVE LastMatch(_, _, _)
\* mutant: the candidates are searched from the end
LastMatch(biomarker_key, candidates, i) ==
    IF i > Len(candidates) THEN 0
    ELSE LET j == Len(candidates) + 1 - i
         IN  IF ContextMatches(biomarker_key, candidates[j].context) THEN j
             ELSE LastMatch(biomarker_key, candidates, i + 1)

RECURSIVE FirstMatch(_, _, _)
\* for context, value, unit in extracted_numbers, from candidate i on: the
\* candidate at which the loop breaks, 0 when it ends (app.py 851-879)
FirstMatch(biomarker_key, candidates, i) ==
    IF i > Len(candidates) THEN 0
    ELSE IF ContextMatches(biomarker_key, candidates[i].context) THEN i
    ELSE FirstMatch(biomarker_key, candidates, i + 1)

RECURSIVE MatcherLoopConsuming(_, _)
\* mutant: a candidate that gave its value to a key is taken out of the list
MatcherLoopConsuming(ks, candidates) ==
    IF ks = <<>> THEN <<>>
    ELSE LET i == FirstMatch(Head(ks), candidates, 1)
         IN  IF i > 0
             THEN (Head(ks) :> candidates[i].value)
                  @@ MatcherLoopConsuming(Tail(ks),
                         SubSeq(candidates, 1, i - 1)
                         \o SubSeq(candidates, i + 1, Len(candidates)))
             ELSE MatcherLoopConsuming(Tail(ks), candidates)

RECURSIVE MatcherLoop(_, _)
\* for biomarker_key, biomarker_info in BIOMARKER_RULES.items() (app.py 850-879)
MatcherLoop(ks, candidates) ==
    IF ks = <<>> THEN <<>>
    ELSE LET i == FirstMatch(Head(ks), candidates, 1)
         IN  (IF i > 0 THEN (Head(ks) :> candidates[i].value) ELSE <<>>)
             @@ MatcherLoop(Tail(ks), candidates)

\* data_source is the dict of a table, or the candidates of a text; the second
\* pass over a table (app.py 881-906) is behind the return of line 835
standardize_biomarkers(data_source, file_type) ==
    IF file_type = "csv" THEN data_source
    ELSE MatcherLoop(BiomarkerKeys, data_source)

\* the dict a file contributes, by its extension (app.py 1308-1315)
SourceBiomarkers(file) ==
    IF file.file_type = "pdf" THEN standardize_biomarkers(file.candidates, "pdf")
    ELSE IF file.file_type = "image" THEN standardize_biomarkers(file.candidates, "image")
    ELSE parse_csv_file(file.rows)

---------------------------------------------------------------------------
(* analyze_report (app.py 1270-1426).  A source is modelled by the map its  *)
(* parser hands to the merge step (standardize_biomarkers for a PDF or an   *)
(* image, parse_csv_file for a CSV), readings in 1/100 of the unit.         *)

\* a dict entry of all_biomarkers: a bare reading, or a list of readings
Scalar(value) == [is_list |-> FALSE, items |-> <<value>>]

List(values) == [is_list |-> TRUE, items |-> values]

\* mutant: a third reading replaces the list by [previous, value]
MergeReadingPairOnly(all, biomarker, value) ==
    IF biomarker \in DOMAIN all
    THEN IF all[biomarker].is_list
         THEN [all EXCEPT ![biomarker] = List(<<@.items[Len(@.items)], value>>)]
         ELSE [all EXCEPT ![biomarker] = List(<<@.items[1], value>>)]
    ELSE (biomarker :> Scalar(value)) @@ all

\* the body of the merge loop (app.py 1328-1335)
MergeReading(all, biomarker, value) ==
    IF biomarker \in DOMAIN all
    THEN IF all[biomarker].is_list
         THEN [all EXCEPT ![biomarker] = List(Append(@.items, value))]
         ELSE [all EXCEPT ![biomarker] = List(<<@.items[1], value>>)]
    ELSE (biomarker :> Scalar(value)) @@ all

RECURSIVE MergeLoop(_, _, _)
\* for biomarker, value in biomarkers.items() (app.py 1327)
MergeLoop(all, ks, biomarkers) ==
    IF ks = <<>> THEN all
    ELSE MergeLoop(MergeReading(all, Head(ks), Num(biomarkers[Head(ks)])),
                   Tail(ks), biomarkers)

EmptyDict == [k \in {} |-> Scalar(Num(0))]

\* the sample readings (app.py 1346-1367)
SampleData ==
    [k \in DOMAIN BIOMARKER_RULES |->
       Scalar(Num(CASE k = "glucose"           -> 11500
                    [] k = "total_cholesterol" -> 22000
                    [] k = "hdl"               -> 3800
                    [] k = "ldl"               -> 14500
                    [] k = "hemoglobin"        -> 1180
                    [] k = "hematocrit"        -> 3500
                    [] k = "tsh"               -> 320
                    [] k = "hba1c"             -> 590
                    [] k = "vitamin_d"         -> 1800
                    [] k = "vitamin_b12"       -> 18000
                    [] k = "vitamin_c"         -> 40
                    [] k = "vitamin_a"         -> 1500
                    [] k = "systolic_bp"       -> 13500
                    [] k = "diastolic_bp"      -> 8500
                    [] k = "heart_rate"        -> 10500
                    [] k = "creatinine"        -> 140))]

\* one pass of the loop over the uploaded files (app.py 1298-1342)
ProcessFile ==
    /\ pc = "files"
    /\ file_idx < Len(files)
    /\ LET biomarkers == files[file_idx + 1]
       IN  all_biomarkers' = MergeLoop(all_biomarkers, KeysOf(biomarkers), biomarkers)
    /\ processed_files' = processed_files + 1
    /\ file_idx' = file_idx + 1
    /\ registry_writes' = registry_writes \o RegistryWrites("merge")
    /\ UNCHANGED <<requests, files, final_biomarkers, analyzed_biomarkers, detected_diseases,
                   symptoms, recommendations, response, pc, condition_vars,
                   source_vars, hash_seed>>

\* after the loop: the sample readings replace an empty dict (app.py 1344-1369)
UseSampleData ==
    /\ pc = "files"
    /\ file_idx = Len(files)
    /\ all_biomarkers' = IF DOMAIN all_biomarkers = {} THEN SampleData ELSE all_biomarkers
    /\ pc' = "average"
    /\ registry_writes' = registry_writes \o RegistryWrites("merge")
    /\ UNCHANGED <<requests, files, file_idx, processed_files, final_biomarkers,
                   analyzed_biomarkers, detected_diseases, symptoms, recommendations,
                   response, condition_vars, source_vars, hash_seed>>

\* app.py 1371-1377
\* sum() adds floats left to right in the interpreters before Python 3.12 and
\* with a compensation term from 3.12 on; the file does not say which runs it
SumAlgorithms == {"naive", "compensated"}

\* The left-to-right float sum of three or more readings depends on their
\* order.  For the lists of the readings 76.6, 134.9 and 148.7 (in 1/100):
\* the float sum(values) / len(values) of the list, less the float the same
\* readings give in ascending order, in units in the last place, where it is
\* not 0; found by running the statement of app.py 1375 on the lists
NaiveShift ==
    (<<13490, 14870, 7660>> :> 1)
    @@ (<<14870, 13490, 7660>> :> 1)
    @@ (<<7660, 7660, 13490, 7660>> :> 1)
    @@ (<<7660, 7660, 14870, 13490>> :> (0 - 1))
    @@ (<<7660, 13490, 7660, 7660>> :> 1)
    @@ (<<7660, 13490, 14870, 7660>> :> (0 - 1))
    @@ (<<7660, 13490, 14870, 13490>> :> 1)
    @@ (<<7660, 14870, 7660, 13490>> :> (0 - 1))
    @@ (<<7660, 14870, 13490, 7660>> :> (0 - 1))
    @@ (<<7660, 14870, 13490, 13490>> :> 1)
    @@ (<<7660, 14870, 14870, 7660>> :> 1)
    @@ (<<13490, 7660, 7660, 7660>> :> 1)
    @@ (<<13490, 7660, 14870, 7660>> :> (0 - 1))
    @@ (<<13490, 7660, 14870, 13490>> :> 1)
    @@ (<<13490, 13490, 13490, 7660>> :> 2)
    @@ (<<13490, 13490, 14870, 7660>> :> 1)
    @@ (<<13490, 13490, 14870, 13490>> :> (0 - 1))
    @@ (<<13490, 14870, 7660, 7660>> :> 1)
    @@ (<<13490, 14870, 7660, 13490>> :> 1)
    @@ (<<13490, 14870, 7660, 14870>> :> 1)
    @@ (<<13490, 14870, 13490, 7660>> :> 1)
    @@ (<<13490, 14870, 13490, 13490>> :> (0 - 1))
    @@ (<<14870, 7660, 7660, 13490>> :> (0 - 1))
    @@ (<<14870, 7660, 13490, 7660>> :> (0 - 1))
    @@ (<<14870, 7660, 13490, 13490>> :> 1)
    @@ (<<14870, 7660, 14870, 7660>> :> 1)
    @@ (<<14870, 13490, 7660, 7660>> :> 1)
    @@ (<<14870, 13490, 7660, 13490>> :> 1)
    @@ (<<14870, 13490, 7660, 14870>> :> 1)
    @@ (<<14870, 13490, 13490, 7660>> :> 1)
    @@ (<<14870, 13490, 13490, 13490>> :> (0 - 1))
    @@ (<<14870, 14870, 7660, 7660>> :> 1)
    @@ (<<14870, 14870, 13490, 13490>> :> (0 - 1))
    @@ (<<14870, 14870, 14870, 7660>> :> (0 - 1))

\* 0 for the compensated sum, which gives these lists one float per multiset,
\* for a list of two readings (a + b is b + a) and for readings that are whole
\* numbers (their sums are exact)
OrderShift(algorithm, values) ==
    LET readings == [i \in 1..Len(values) |-> values[i].n]
    IN  IF algorithm = "naive" /\ readings \in DOMAIN NaiveShift
        THEN NaiveShift[readings]
        ELSE 0

\* sum(values) / len(values) (app.py 1375): the exact mean, with the field
\* ulp where the order of the list moved the float
MeanOf(values, algorithm) ==
    LET mean  == DivInt(SumSeq(values), Len(values))
        shift == OrderShift(algorithm, values)
    IN  IF shift = 0 THEN mean
        ELSE [n |-> mean.n, d |-> mean.d, ulp |-> shift]

FinalBiomarkers(all, algorithm) ==
    [biomarker \in DOMAIN all |->
        IF all[biomarker].is_list
        THEN MeanOf(all[biomarker].items, algorithm)
        ELSE all[biomarker].items[1]]

Average ==
    /\ pc = "average"
    /\ \E algorithm \in SumAlgorithms :
          final_biomarkers' = FinalBiomarkers(all_biomarkers, algorithm)
    /\ pc' = "analyze"
    /\ registry_writes' = registry_writes \o RegistryWrites("average")
    /\ UNCHANGED <<requests, files, file_idx, all_biomarkers, processed_files,
                   analyzed_biomarkers, detected_diseases, symptoms, recommendations,
                   response, condition_vars, source_vars, hash_seed>>

RECURSIVE AnalyzeLoopDrop(_, _)
\* mutant: a key without rules gets no record
AnalyzeLoopDrop(ks, final) ==
    IF ks = <<>> THEN <<>>
    ELSE LET analysis == analyze_biomarker(Head(ks), final[Head(ks)])
         IN  (IF analysis # None THEN <<analysis>> ELSE <<>>)
             \o AnalyzeLoopDrop(Tail(ks), final)

RECURSIVE AnalyzeLoop(_, _)
\* app.py 1380-1397
AnalyzeLoop(ks, final) ==
    IF ks = <<>> THEN <<>>
    ELSE LET analysis == analyze_biomarker(Head(ks), final[Head(ks)])
         IN  (IF analysis # None
              THEN <<analysis>>
              ELSE <<UnknownRecord(Head(ks), final[Head(ks)])>>)
             \o AnalyzeLoop(Tail(ks), final)

Analyze ==
    /\ pc = "analyze"
    /\ analyzed_biomarkers' = AnalyzeLoop(KeysOf(final_biomarkers), final_biomarkers)
    /\ pc' = "detect"
    /\ registry_writes' = registry_writes \o RegistryWrites("analyze_biomarker")
    /\ UNCHANGED <<requests, files, file_idx, all_biomarkers, processed_files,
                   final_biomarkers, detected_diseases, symptoms, recommendations,
                   response, condition_vars, source_vars, hash_seed>>

\* app.py 1400
Detect ==
    /\ pc = "detect"
    /\ detected_diseases' = detect_diseases(final_biomarkers)
    /\ pc' = "symptoms"
    /\ registry_writes' = registry_writes \o RegistryWrites("detect_diseases")
    /\ UNCHANGED <<requests, files, file_idx, all_biomarkers, processed_files,
                   final_biomarkers, analyzed_biomarkers, symptoms, recommendations,
                   response, condition_vars, source_vars, hash_seed>>

\* app.py 1403; the first iteration of a set shows the interpreter's order
GetSymptoms ==
    /\ pc = "symptoms"
    /\ hash_seed' \in 0..(HashSeeds - 1)
    /\ symptoms' = get_symptoms(detected_diseases, final_biomarkers, hash_seed')
    /\ pc' = "recommend"
    /\ registry_writes' = registry_writes \o RegistryWrites("get_symptoms")
    /\ UNCHANGED <<requests, files, file_idx, all_biomarkers, processed_files,
                   final_biomarkers, analyzed_biomarkers, detected_diseases,
                   recommendations, response, condition_vars, source_vars>>

\* app.py 1406
Recommend ==
    /\ pc = "recommend"
    /\ recommendations' = generate_recommendations(detected_diseases, hash_seed)
    /\ pc' = "respond"
    /\ registry_writes' = registry_writes \o RegistryWrites("generate_recommendations")
    /\ UNCHANGED <<requests, files, file_idx, all_biomarkers, processed_files,
                   final_biomarkers, analyzed_biomarkers, detected_diseases,
                   symptoms, response, condition_vars, source_vars, hash_seed>>

\* app.py 1409-1420
Respond ==
    /\ pc = "respond"
    /\ response' = [biomarkers          |-> analyzed_biomarkers,
                    potential_diseases  |-> detected_diseases,
                    symptoms            |-> symptoms,
                    recommendations     |-> recommendations,
                    files_processed     |-> processed_files,
                    collective_analysis |-> Len(files) > 1]
    /\ pc' = "done"
    /\ registry_writes' = registry_writes \o RegistryWrites("respond")
    /\ UNCHANGED <<requests, files, file_idx, all_biomarkers, processed_files,
                   final_biomarkers, analyzed_biomarkers, detected_diseases,
                   symptoms, recommendations, condition_vars, source_vars, hash_seed>>

NoRecommendations == [category \in Categories |-> <<>>]

NoResponse ==
    [biomarkers |-> <<>>, potential_diseases |-> <<>>, symptoms |-> <<>>,
     recommendations |-> NoRecommendations, files_processed |-> 0,
     collective_analysis |-> FALSE]

NoSource == [file_type |-> "none"]

NoBiomarkers == [k \in {} |-> Num(0)]

NoCondition == Cond("glucose", "none", <<Num(0)>>)

NoResult == [returned |-> FALSE, value |-> FALSE]

\* the state when the loop over the files starts (app.py 1294-1296)
InitPipeline(inputs) ==
    /\ files \in inputs
    /\ file_idx = 0
    /\ all_biomarkers = EmptyDict
    /\ processed_files = 0
    /\ final_biomarkers = [k \in {} |-> Num(0)]
    /\ analyzed_biomarkers = <<>>
    /\ detected_diseases = <<>>
    /\ symptoms = <<>>
    /\ recommendations = NoRecommendations
    /\ hash_seed = 0
    /\ response = NoResponse
    /\ pc = "files"
    /\ condition = NoCondition
    /\ cond_biomarkers = [k \in {} |-> Num(0)]
    /\ cond_result = NoResult
    /\ source = NoSource
    /\ source_biomarkers = NoBiomarkers
    /\ extracted_numbers = <<>>
    /\ registry_writes = <<>>
    /\ requests = 1

Next ==
    \/ ProcessFile
    \/ UseSampleData
    \/ Average
    \/ Analyze
    \/ Detect
    \/ GetSymptoms
    \/ Recommend
    \/ Respond

---------------------------------------------------------------------------
(* The inputs the specifications draw from.                                 *)

\* readings are taken at every threshold and up to Steps/100 of a unit around it
Steps == 1

\* most readings of one source where several biomarkers are combined
MaxReadings == 3

\* most sources of one request
MaxFiles == 3

\* the thresholds (in 1/100) the conditions of DISEASE_RULES put on key k
RuleThresholds(k) ==
    UNION {UNION {SeqToSet([j \in 1..Len(c.value) |-> c.value[j].n]) :
                    c \in {x \in SeqToSet(r.conditions) : x.biomarker = k}} :
             r \in SeqToSet(DISEASE_RULES)}

\* the bounds of the bands of registry key k, in 1/100
BandBounds(k) ==
    LET rules == BIOMARKER_RULES[k]
        opt   == calculate_optimal_range(rules.acceptable_min, rules.acceptable_max)
    IN  {rules.acceptable_min.n, rules.acceptable_max.n, rules.high_threshold.n,
         opt[1].n \div opt[1].d, opt[2].n \div opt[2].d}

\* a reading inside the optimal band of registry key k
MidReading(k) ==
    LET rules == BIOMARKER_RULES[k]
    IN  (rules.acceptable_min.n + rules.acceptable_max.n) \div 2

SampleReading(k) == SampleData[k].items[1].n

\* the readings of key k tried one at a time
FineGrid(k) ==
    IF k \in DOMAIN BIOMARKER_RULES
    THEN {t + o : t \in BandBounds(k) \cup RuleThresholds(k), o \in (0 - Steps)..Steps}
         \cup {SampleReading(k), MidReading(k)}
         \cup (IF k = "glucose" THEN {8000} ELSE {})
    ELSE {12000 + o : o \in (0 - Steps)..Steps}

\* the readings (in 1/100) that make condition c true: the threshold itself, the
\* first grid reading past it for a strict comparison, both ends of a 'between'
PassingReadings(c) ==
    CASE c.operator = "<"       -> {c.value[1].n - Steps}
      [] c.operator = ">"       -> {c.value[1].n + Steps}
      [] c.operator = "between" -> {c.value[1].n, c.value[2].n}
      [] OTHER                  -> {c.value[1].n}

\* the readings of key k tried in combination with other keys: one inside the
\* optimal band, and for every condition on k the readings that make it true
CoarseGrid(k) ==
    IF k \in DOMAIN BIOMARKER_RULES
    THEN {MidReading(k)}
         \cup UNION {UNION {PassingReadings(c) :
                              c \in {x \in SeqToSet(r.conditions) : x.biomarker = k}} :
                       r \in SeqToSet(DISEASE_RULES)}
    ELSE {12000}

\* the readings of the sources that are merged
MergeGrid(k) ==
    IF k = "glucose" THEN {9000, 10000, 11000} ELSE {12000}

\* the readings of the sources whose order is varied: glucose readings that
\* are no whole numbers
OrderGrid(k) ==
    IF k = "glucose" THEN {7660, 13490, 14870} ELSE {12000}

GridOf(grid, k) ==
    CASE grid = "fine"   -> FineGrid(k)
      [] grid = "coarse" -> CoarseGrid(k)
      [] grid = "merge"  -> MergeGrid(k)
      [] grid = "order"  -> OrderGrid(k)

RECURSIVE MapsOver(_, _)
\* every dict with key set ks and, for each key k, a reading of GridOf(grid, k)
MapsOver(ks, grid) ==
    IF ks = {} THEN {<<>>}
    ELSE LET k    == CHOOSE x \in ks : TRUE
             rest == MapsOver(ks \ {k}, grid)
         IN  UNION {{(k :> v) @@ m : m \in rest} : v \in GridOf(grid, k)}

\* the keys of the rules with more than one condition
PanelKeys ==
    UNION {{c.biomarker : c \in SeqToSet(r.conditions)} :
             r \in {x \in SeqToSet(DISEASE_RULES) : Len(x.conditions) > 1}}

\* one source with no reading or one reading
SingleReadingMaps ==
    {<<>>} \cup UNION {MapsOver({k}, "fine") : k \in AllKeys}

\* one source with 2..max_readings readings of the panel keys
PanelMaps(max_readings) ==
    UNION {MapsOver(ks, "coarse") :
             ks \in {x \in SUBSET PanelKeys : Cardinality(x) \in 2..max_readings}}

\* the readings of the example of the Iron Deficiency Anemia rule
ExampleMaps == {("hemoglobin" :> 1180) @@ ("hematocrit" :> 3500)}

\* two sources with readings t and t + Steps/100 of one key: their mean lies
\* strictly between two neighbouring readings of the grid
NeighbourPairs ==
    UNION {{<<(k :> t), (k :> (t + Steps))>> : t \in FineGrid(k)} : k \in AllKeys}

ClassifyInputs == {<<m>> : m \in SingleReadingMaps} \cup NeighbourPairs

RuleInputs(max_readings) ==
    {<<m>> : m \in SingleReadingMaps \cup ExampleMaps \cup PanelMaps(max_readings)}

MergeMaps ==
    UNION {MapsOver(ks, "merge") : ks \in SUBSET {"glucose", "ldl_cholesterol"}}

MergeInputs(max_files) == UNION {[1..n -> MergeMaps] : n \in 1..max_files}

\* one request over any of the inputs
Init == InitPipeline(RuleInputs(MaxReadings) \cup MergeInputs(MaxFiles))

Spec == Init /\ [][Next]_vars

\* one request with at most one biomarker
InitClassify == InitPipeline(ClassifyInputs)

SpecClassify == InitClassify /\ [][Next]_vars

\* one request of 1..MaxFiles sources
InitMerge == InitPipeline(MergeInputs(MaxFiles))

SpecMerge == InitMerge /\ [][Next]_vars

OrderMaps ==
    UNION {MapsOver(ks, "order") : ks \in SUBSET {"glucose", "ldl_cholesterol"}}

OrderInputs(max_files) == UNION {[1..n -> OrderMaps] : n \in 1..max_files}

\* one request of 1..MaxFiles sources with glucose readings of one decimal
InitOrder == InitPipeline(OrderInputs(MaxFiles))

SpecOrder == InitOrder /\ [][Next]_vars

---------------------------------------------------------------------------
(* evaluate_disease_condition applied on its own: to the conditions of the   *)
(* registry and to every operator the function knows, over dicts that hold   *)
(* the condition's key or not.                                               *)

ScalarOperators == {">=", "<=", ">", "<", "==", "=", "!="}

ConditionInputs ==
    UNION {SeqToSet(r.conditions) : r \in SeqToSet(DISEASE_RULES)}
    \cup UNION {{Cond(k, op, <<Num(t)>>) : op \in ScalarOperators, t \in RuleThresholds(k)} :
                  k \in {"glucose", "tsh"}}

\* readings of key k: the grid, and the midpoints between neighbours
ConditionReadings(k) ==
    {Num(v) : v \in FineGrid(k)} \cup {[n |-> 2 * v + Steps, d |-> 2] : v \in FineGrid(k)}

\* dicts without key k, and dicts with it
ConditionMaps(k) ==
    LET others == {<<>>, ("vitamin_a" :> Num(1500))}
    IN  others \cup {(k :> v) @@ m : v \in ConditionReadings(k), m \in others}

InitCondition ==
    /\ files = <<>>
    /\ file_idx = 0
    /\ all_biomarkers = EmptyDict
    /\ processed_files = 0
    /\ final_biomarkers = [k \in {} |-> Num(0)]
    /\ analyzed_biomarkers = <<>>
    /\ detected_diseases = <<>>
    /\ symptoms = <<>>
    /\ recommendations = NoRecommendations
    /\ hash_seed = 0
    /\ response = NoResponse
    /\ pc = "idle"
    /\ condition \in ConditionInputs
    /\ cond_biomarkers \in ConditionMaps(condition.biomarker)
    /\ cond_result = NoResult
    /\ source = NoSource
    /\ source_biomarkers = NoBiomarkers
    /\ extracted_numbers = <<>>
    /\ registry_writes = <<>>
    /\ requests = 1

\* one call of evaluate_disease_condition (app.py 991-1015)
EvaluateCondition ==
    /\ pc = "idle"
    /\ ~cond_result.returned
    /\ cond_result' = [returned |-> TRUE,
                       value |-> evaluate_disease_condition(condition, cond_biomarkers)]
    /\ registry_writes' = registry_writes \o RegistryWrites("evaluate_disease_condition")
    /\ UNCHANGED <<requests, pipeline_vars, condition, cond_biomarkers, source_vars>>

NextCondition == EvaluateCondition

SpecCondition == InitCondition /\ [][NextCondition]_vars

---------------------------------------------------------------------------
(* One request with one file, from the reading of the file on.              *)

\* most rows of a table
MaxRows == 2

\* most candidates of a text
MaxCandidates == 3

CsvRows ==
    {[name |-> n, value |-> v, numeric |-> TRUE] :
       n \in {"LDL Cholesterol", "ldl_cholesterol", "hdl-cholesterol", " Glucose "},
       v \in {12000, 14500}}
    \cup {[name |-> n, value |-> 0, numeric |-> FALSE] : n \in {"ldl_cholesterol", " Glucose "}}

Candidates ==
    {[context |-> c, value |-> v] :
       c \in {"glucose", "fasting glucose level", "cholesterol", "hemoglobin", "patient age"},
       v \in {9000, 12000}}

SourceInputs(max_rows, max_candidates) ==
    UNION {{[file_type |-> "csv", rows |-> r] : r \in [1..n -> CsvRows]} : n \in 0..max_rows}
    \cup UNION {{[file_type |-> t, candidates |-> c] : t \in {"pdf", "image"},
                                                      c \in [1..n -> Candidates]} :
                  n \in 0..max_candidates}

InitSource ==
    /\ files = <<>>
    /\ file_idx = 0
    /\ all_biomarkers = EmptyDict
    /\ processed_files = 0
    /\ final_biomarkers = [k \in {} |-> Num(0)]
    /\ analyzed_biomarkers = <<>>
    /\ detected_diseases = <<>>
    /\ symptoms = <<>>
    /\ recommendations = NoRecommendations
    /\ hash_seed = 0
    /\ response = NoResponse
    /\ pc = "read"
    /\ condition = NoCondition
    /\ cond_biomarkers = [k \in {} |-> Num(0)]
    /\ cond_result = NoResult
    /\ source \in SourceInputs(MaxRows, MaxCandidates)
    /\ source_biomarkers = NoBiomarkers
    /\ extracted_numbers = <<>>
    /\ registry_writes = <<>>
    /\ requests = 1

\* the file is read and its dict is what the loop body merges (app.py 1308-1315)
ReadSource ==
    /\ pc = "read"
    /\ source_biomarkers' = SourceBiomarkers(source)
    /\ files' = <<source_biomarkers'>>
    /\ pc' = "files"
    /\ registry_writes' = registry_writes \o RegistryWrites("standardize_biomarkers")
    /\ UNCHANGED <<requests, file_idx, all_biomarkers, processed_files, final_biomarkers,
                   analyzed_biomarkers, detected_diseases, symptoms, recommendations,
                   hash_seed, response, condition_vars, source, extracted_numbers>>

NextSource ==
    \/ ReadSource
    \/ Next

SpecSource == InitSource /\ [][NextSource]_vars

---------------------------------------------------------------------------
(* Several requests served one after the other by the same process: every   *)
(* call of analyze_report starts with fresh locals (app.py 1293-1296) and   *)
(* finds the registries as the requests before it left them.                *)

\* most requests served
MaxRequests == 2

\* the sources of the requests: a table of at most one row, a text of at most
\* one candidate
RepeatInputs == SourceInputs(1, 1)

InitRepeat == InitSource /\ source \in RepeatInputs

\* the next call of analyze_report begins
NewRequest ==
    /\ pc = "done"
    /\ requests < MaxRequests
    /\ requests' = requests + 1
    /\ source' \in RepeatInputs
    /\ source_biomarkers' = NoBiomarkers
    /\ files' = <<>>
    /\ file_idx' = 0
    /\ all_biomarkers' = EmptyDict
    /\ processed_files' = 0
    /\ final_biomarkers' = [k \in {} |-> Num(0)]
    /\ analyzed_biomarkers' = <<>>
    /\ detected_diseases' = <<>>
    /\ symptoms' = <<>>
    /\ recommendations' = NoRecommendations
    /\ hash_seed' = 0
    /\ response' = NoResponse
    /\ pc' = "read"
    /\ registry_writes' = registry_writes
    /\ UNCHANGED <<condition_vars, extracted_numbers>>

NextRepeat ==
    \/ NextSource
    \/ NewRequest

SpecRepeat == InitRepeat /\ [][NextRepeat]_vars

---------------------------------------------------------------------------
(* extract_numbers_from_text applied on its own to the matches of a text.   *)

\* most matches of one text
MaxMatches == 3

\* matches of the patterns with a unit group, and of the last pattern
Matches ==
    {<<c, v, "mg/dL">> : c \in {"Glucose", "TSH ", " Hb", "   "}, v \in {"5.7", "12."}}
    \cup {<<"TSH ", "5.7", "">>}
    \cup {<<c, v>> : c \in {"Glucose level"}, v \in {"126", "5.7"}}

TextInputs(max_matches) ==
    UNION {{[file_type |-> "text", matches |-> m] : m \in [1..n -> Matches]} :
             n \in 0..max_matches}

InitExtract ==
    /\ files = <<>>
    /\ file_idx = 0
    /\ all_biomarkers = EmptyDict
    /\ processed_files = 0
    /\ final_biomarkers = [k \in {} |-> Num(0)]
    /\ analyzed_biomarkers = <<>>
    /\ detected_diseases = <<>>
    /\ symptoms = <<>>
    /\ recommendations = NoRecommendations
    /\ hash_seed = 0
    /\ response = NoResponse
    /\ pc = "extract"
    /\ condition = NoCondition
    /\ cond_biomarkers = [k \in {} |-> Num(0)]
    /\ cond_result = NoResult
    /\ source \in TextInputs(MaxMatches)
    /\ source_biomarkers = NoBiomarkers
    /\ extracted_numbers = <<>>
    /\ registry_writes = <<>>
    /\ requests = 1

\* one call of extract_numbers_from_text (app.py 620-666)
ExtractNumbers ==
    /\ pc = "extract"
    /\ extracted_numbers' = extract_numbers_from_text(source.matches)
    /\ pc' = "extracted"
    /\ registry_writes' = registry_writes \o RegistryWrites("extract_numbers_from_text")
    /\ UNCHANGED <<requests, files, file_idx, all_biomarkers, processed_files, final_biomarkers,
                   analyzed_biomarkers, detected_diseases, symptoms, recommendations,
                   hash_seed, response, condition_vars, source, source_biomarkers>>

NextExtract == ExtractNumbers

SpecExtract == InitExtract /\ [][NextExtract]_vars

---------------------------------------------------------------------------
(* generate_recommendations applied on its own, to lists of conditions that *)
(* need not come from detect_diseases.                                      *)

\* most conditions of one list
MaxDiseases == 2

DiseaseInputs ==
    {Detected(DISEASE_RULES[i]) : i \in 1..Len(DISEASE_RULES)}
    \cup {EverythingFine, HealthMonitoring}
    \cup {[name |-> n, priority |-> "Medium Risk"] : n \in OtherNames}

DiseaseLists(max_diseases) == UNION {[1..n -> DiseaseInputs] : n \in 0..max_diseases}

InitRecommend ==
    /\ files = <<>>
    /\ file_idx = 0
    /\ all_biomarkers = EmptyDict
    /\ processed_files = 0
    /\ final_biomarkers = [k \in {} |-> Num(0)]
    /\ analyzed_biomarkers = <<>>
    /\ detected_diseases \in DiseaseLists(MaxDiseases)
    /\ symptoms = <<>>
    /\ recommendations = NoRecommendations
    /\ hash_seed \in 0..(HashSeeds - 1)
    /\ response = NoResponse
    /\ pc = "call"
    /\ condition = NoCondition
    /\ cond_biomarkers = [k \in {} |-> Num(0)]
    /\ cond_result = NoResult
    /\ source = NoSource
    /\ source_biomarkers = NoBiomarkers
    /\ extracted_numbers = <<>>
    /\ registry_writes = <<>>
    /\ requests = 1

\* one call of generate_recommendations (app.py 1223-1258)
CallRecommendations ==
    /\ pc = "call"
    /\ recommendations' = generate_recommendations(detected_diseases, hash_seed)
    /\ pc' = "returned"
    /\ registry_writes' = registry_writes \o RegistryWrites("generate_recommendations")
    /\ UNCHANGED <<requests, files, file_idx, all_biomarkers, processed_files, final_biomarkers,
                   analyzed_biomarkers, detected_diseases, symptoms, hash_seed,
                   response, condition_vars, source_vars>>

NextRecommend == CallRecommendations

SpecRecommend == InitRecommend /\ [][NextRecommend]_vars

---------------------------------------------------------------------------
(* Positions of analyze_report, and access to its results.                  *)

AfterAverage == pc \in {"analyze", "detect", "symptoms", "recommend", "respond", "done"}

AfterAnalyze == pc \in {"detect", "symptoms", "recommend", "respond", "done"}

AfterDetect == pc \in {"symptoms", "recommend", "respond", "done"}

AfterSymptoms == pc \in {"recommend", "respond", "done"}

AfterRecommend == pc \in {"respond", "done"}

\* the classified records of the biomarkers with a registry entry
RegisteredRecords ==
    {analyzed_biomarkers[i] : i \in {j \in 1..Len(analyzed_biomarkers) :
                                       analyzed_biomarkers[j].key \in DOMAIN BIOMARKER_RULES}}

\* the registry numbers of key k as integers, in 1/100 of the unit
AMin(k) == BIOMARKER_RULES[k].acceptable_min.n

AMax(k) == BIOMARKER_RULES[k].acceptable_max.n

High(k) == BIOMARKER_RULES[k].high_threshold.n

\* v against the optimal band [amin + span/5, amax - span/5] of key k, all
\* inequalities multiplied by 5 and by the denominator of v
InOptimalBand(k, v) ==
    /\ (4 * AMin(k) + AMax(k)) * v.d <= 5 * v.n
    /\ 5 * v.n <= (AMin(k) + 4 * AMax(k)) * v.d

BelowOptimalMin(k, v) == 5 * v.n < (4 * AMin(k) + AMax(k)) * v.d

InAcceptableBand(k, v) == AMin(k) * v.d <= v.n /\ v.n <= AMax(k) * v.d

\* the status the nested-band decision gives value v of key k
BandStatus(k, v) ==
    CASE InOptimalBand(k, v) -> "Optimal"
      [] ~InOptimalBand(k, v) /\ InAcceptableBand(k, v) /\ BelowOptimalMin(k, v) -> "Below Optimal"
      [] ~InOptimalBand(k, v) /\ InAcceptableBand(k, v) /\ ~BelowOptimalMin(k, v) -> "Above Optimal"
      [] ~InAcceptableBand(k, v) /\ v.n < AMin(k) * v.d -> "Below Acceptable"
      [] ~InAcceptableBand(k, v) /\ v.n > AMax(k) * v.d /\ v.n >= High(k) * v.d -> "Significantly High"
      [] ~InAcceptableBand(k, v) /\ v.n > AMax(k) * v.d /\ v.n < High(k) * v.d -> "Above Acceptable"

---------------------------------------------------------------------------
(* Claims.                                                                  *)

\* C1: every classified record of a registered biomarker carries the status of
\* the nested-band decision over the optimal band [amin + span/5, amax - span/5]
\* (Optimal; else Below/Above Optimal inside the acceptable band; else Below
\* Acceptable; else Significantly High from high_threshold on and Above
\* Acceptable below it); glucose 80 is Optimal, 115 Above Acceptable and 126
\* Significantly High.
C1_NestedBandStatus ==
    \A r \in RegisteredRecords :
        /\ r.status = BandStatus(r.key, r.value)
        /\ (r.key = "glucose" /\ r.value = Num(8000)) => r.status = "Optimal"
        /\ (r.key = "glucose" /\ r.value = Num(11500)) => r.status = "Above Acceptable"
        /\ (r.key = "glucose" /\ r.value = Num(12600)) => r.status = "Significantly High"

C1_Witness ==
    /\ pc = "done"
    /\ \E r \in RegisteredRecords :
          r.key = "glucose" /\ r.value = Num(12600) /\ r.status = "Significantly High"

StatusCategories ==
    {"optimal", "below_optimal", "above_optimal", "below_acceptable",
     "above_acceptable", "significantly_high"}

\* C2: once the biomarkers are analyzed, every registered key of the merged map
\* has exactly one record, for the merged value, with one of the six status
\* categories (never 'unknown'), and is_optimal says whether it is 'optimal'.
C2_ClassificationTotal ==
    AfterAnalyze =>
        \A k \in DOMAIN final_biomarkers \cap DOMAIN BIOMARKER_RULES :
            /\ Cardinality({i \in 1..Len(analyzed_biomarkers) :
                              analyzed_biomarkers[i].key = k}) = 1
            /\ \A r \in RegisteredRecords :
                  r.key = k =>
                    /\ r.value = final_biomarkers[k]
                    /\ r.status_category \in StatusCategories
                    /\ r.status # "Normal"
                    /\ r.is_optimal = (r.status_category = "optimal")

C2_Witness ==
    /\ pc = "detect"
    /\ \E r \in RegisteredRecords : r.status_category = "below_acceptable" /\ r.value.d > 1

\* C3: a value exactly on a band boundary gets the tighter band: optimal_min and
\* optimal_max are Optimal, acceptable_min is Below Optimal and acceptable_max
\* is Above Optimal, for every registry entry.
C3_BoundariesInclusive ==
    \A r \in RegisteredRecords :
        /\ 5 * r.value.n = (4 * AMin(r.key) + AMax(r.key)) * r.value.d => r.status = "Optimal"
        /\ 5 * r.value.n = (AMin(r.key) + 4 * AMax(r.key)) * r.value.d => r.status = "Optimal"
        /\ r.value.n = AMin(r.key) * r.value.d => r.status = "Below Optimal"
        /\ r.value.n = AMax(r.key) * r.value.d => r.status = "Above Optimal"

C3_Witness ==
    /\ pc = "done"
    /\ \E r \in RegisteredRecords :
          r.key = "hdl" /\ r.value = BIOMARKER_RULES["hdl"].acceptable_max
          /\ r.status = "Above Optimal"

\* C4: for every registry entry (each is read by some request: the sample
\* readings hold all of them) the optimal band calculate_optimal_range returns
\* is a strictly narrower sub-band of the acceptable range: acceptable_min <
\* optimal_min < optimal_max < acceptable_max.
C4_OptimalBandStrict ==
    \A k \in DOMAIN final_biomarkers \cap DOMAIN BIOMARKER_RULES :
        LET rules == BIOMARKER_RULES[k]
            opt   == calculate_optimal_range(rules.acceptable_min, rules.acceptable_max)
        IN  /\ opt[1].n * rules.acceptable_min.d > rules.acceptable_min.n * opt[1].d
            /\ opt[1].n * opt[2].d < opt[2].n * opt[1].d
            /\ opt[2].n * rules.acceptable_max.d < rules.acceptable_max.n * opt[2].d

\* a reading strictly inside the narrowest optimal band has been classified
C4_Witness ==
    /\ pc = "done"
    /\ \E r \in RegisteredRecords :
          /\ r.key = "creatinine" /\ r.status = "Optimal"
          /\ 5 * r.value.n > (4 * AMin(r.key) + AMax(r.key)) * r.value.d
          /\ 5 * r.value.n < (AMin(r.key) + 4 * AMax(r.key)) * r.value.d

\* the number of entries of the detected conditions that carry this name
Reported(name) ==
    Cardinality({i \in 1..Len(detected_diseases) : detected_diseases[i].name = name})

\* whether the rule fires on map m: AND needs every condition, OR needs one
Fires(r, m) ==
    LET passing == {i \in 1..Len(r.conditions) :
                      evaluate_disease_condition(r.conditions[i], m)}
    IN  IF r.logic = "AND" THEN passing = 1..Len(r.conditions) ELSE passing # {}

FiringRules == {i \in 1..Len(DISEASE_RULES) : Fires(DISEASE_RULES[i], final_biomarkers)}

\* C5: a disease rule is reported (once) if and only if it fires, where an AND
\* rule fires when all its conditions are true and an OR rule when at least one
\* is; every firing rule is reported, however many fire; hemoglobin 11.8 with
\* hematocrit 35.0 fires Iron Deficiency Anemia.
C5_ReportedIffFires ==
    AfterDetect =>
        /\ LET firing == FiringRules
           IN  \A i \in 1..Len(DISEASE_RULES) :
                  Reported(DISEASE_RULES[i].name) = IF i \in firing THEN 1 ELSE 0
        /\ ( /\ "hemoglobin" \in DOMAIN final_biomarkers
             /\ "hematocrit" \in DOMAIN final_biomarkers
             /\ final_biomarkers["hemoglobin"] = Num(1180)
             /\ final_biomarkers["hematocrit"] = Num(3500) )
           => Reported("Iron Deficiency Anemia") = 1

\* the 3-condition AND rule is not reported with two of its conditions passing,
\* while other rules are
C5_Witness ==
    /\ pc = "done"
    /\ DOMAIN final_biomarkers = {"glucose", "hdl", "total_cholesterol"}
    /\ evaluate_disease_condition(DISEASE_RULES[12].conditions[1], final_biomarkers)
    /\ evaluate_disease_condition(DISEASE_RULES[12].conditions[2], final_biomarkers)
    /\ ~evaluate_disease_condition(DISEASE_RULES[12].conditions[3], final_biomarkers)
    /\ Reported("Metabolic Syndrome Risk") = 0
    /\ Cardinality(FiringRules) >= 2
    /\ Len(detected_diseases) = Cardinality(FiringRules)

\* C6: evaluate_disease_condition returns false when the condition's key is
\* absent from the map; when it is present, >=, <=, >, <, == compare the value
\* with the threshold and 'between' [lo, hi] is true exactly for lo <= value <= hi.
C6_ConditionSemantics ==
    cond_result.returned =>
        LET k  == condition.biomarker
            op == condition.operator
            t  == condition.value
        IN  IF k \notin DOMAIN cond_biomarkers
            THEN cond_result.value = FALSE
            ELSE LET v == cond_biomarkers[k]
                 IN  /\ op = ">=" => cond_result.value = (v.n * t[1].d >= t[1].n * v.d)
                     /\ op = "<=" => cond_result.value = (v.n * t[1].d <= t[1].n * v.d)
                     /\ op = ">"  => cond_result.value = (v.n * t[1].d > t[1].n * v.d)
                     /\ op = "<"  => cond_result.value = (v.n * t[1].d < t[1].n * v.d)
                     /\ op = "==" => cond_result.value = (v.n * t[1].d = t[1].n * v.d)
                     /\ op = "between" =>
                          cond_result.value = ( /\ t[1].n * v.d <= v.n * t[1].d
                                                /\ v.n * t[2].d <= t[2].n * v.d )

\* a 'between' condition evaluated true with the value on its upper end
C6_Witness ==
    /\ cond_result.returned
    /\ cond_result.value
    /\ condition.operator = "between"
    /\ condition.biomarker \in DOMAIN cond_biomarkers
    /\ Eq(cond_biomarkers[condition.biomarker], condition.value[2])

\* C7: when no rule fires the detected conditions are exactly one entry,
\* 'Everything Fine' (Excellent Health) if every biomarker present in the map and
\* the registry lies in its optimal band and 'Health Monitoring Recommended'
\* (Monitor) otherwise; when a rule fires neither entry is there; the list is
\* never empty.
C7_Fallback ==
    AfterDetect =>
        LET all_optimal ==
              \A k \in DOMAIN final_biomarkers \cap DOMAIN BIOMARKER_RULES :
                  InOptimalBand(k, final_biomarkers[k])
        IN  /\ Len(detected_diseases) >= 1
            /\ FiringRules = {} =>
                  detected_diseases =
                     << IF all_optimal
                        THEN [name |-> "Everything Fine", priority |-> "Excellent Health"]
                        ELSE [name |-> "Health Monitoring Recommended", priority |-> "Monitor"] >>
            /\ FiringRules # {} =>
                  Reported("Everything Fine") + Reported("Health Monitoring Recommended") = 0

\* a registered reading outside its optimal band on which no rule fires
C7_Witness ==
    /\ pc = "done"
    /\ FiringRules = {}
    /\ \E k \in DOMAIN final_biomarkers \cap DOMAIN BIOMARKER_RULES :
          ~InOptimalBand(k, final_biomarkers[k])
    /\ detected_diseases = <<HealthMonitoring>>

\* the rank of a priority
Rank(priority) ==
    CASE priority = "High Risk"        -> 0
      [] priority = "Medium Risk"      -> 1
      [] priority = "Low Risk"         -> 2
      [] priority = "Monitor"          -> 3
      [] priority = "Excellent Health" -> 4
      [] OTHER                         -> 5

\* the position in DISEASE_RULES of the rule with this name (0: none)
RuleIndex(name) ==
    IF \E i \in 1..Len(DISEASE_RULES) : DISEASE_RULES[i].name = name
    THEN CHOOSE i \in 1..Len(DISEASE_RULES) : DISEASE_RULES[i].name = name
    ELSE 0

\* C8: the detected conditions are ordered by the rank High Risk < Medium Risk <
\* Low Risk < Monitor < Excellent Health, and conditions of equal priority keep
\* the order of DISEASE_RULES.
C8_PriorityOrder ==
    AfterDetect =>
        \A i, j \in 1..Len(detected_diseases) :
            i < j =>
              /\ Rank(detected_diseases[i].priority) <= Rank(detected_diseases[j].priority)
              /\ Rank(detected_diseases[i].priority) = Rank(detected_diseases[j].priority)
                   => RuleIndex(detected_diseases[i].name) < RuleIndex(detected_diseases[j].name)

\* High, Medium and Low fire together, reported in that order, with a Medium
\* rule standing before a High rule in DISEASE_RULES
C8_Witness ==
    /\ pc = "done"
    /\ \E i, j, k \in 1..Len(detected_diseases) :
          /\ i < j /\ j < k
          /\ detected_diseases[i].priority = "High Risk"
          /\ detected_diseases[j].priority = "Medium Risk"
          /\ detected_diseases[k].priority = "Low Risk"
          /\ RuleIndex(detected_diseases[j].name) < RuleIndex(detected_diseases[i].name)

\* C9: when every processed source yields an empty map, the report holds no
\* classified biomarker and its detected conditions are exactly one fallback
\* entry ('Health Monitoring Recommended' or 'Everything Fine').
C9_EmptyBatchReport ==
    (pc = "done" /\ \A i \in 1..Len(files) : DOMAIN files[i] = {}) =>
        /\ Len(response.biomarkers) = 0
        /\ Len(response.potential_diseases) = 1
        /\ response.potential_diseases[1].name \in
              {"Everything Fine", "Health Monitoring Recommended"}

\* the sources that hold a reading of key k
Observed(k) == {i \in 1..Len(files) : k \in DOMAIN files[i]}

RECURSIVE ObservedSum(_, _)
\* the sum of the readings of key k in the sources of set is
ObservedSum(k, is) ==
    IF is = {} THEN 0
    ELSE LET i == CHOOSE x \in is : TRUE
         IN  files[i][k] + ObservedSum(k, is \ {i})

\* C10: unless every source is empty, the merged map holds exactly the keys
\* observed in some source, each with the arithmetic mean of all its observations
\* (every observation counted once, for any number of sources); a key observed
\* once keeps its value; [90, 110] merges to 100 and [100] to 100.
C10_MergeIsMean ==
    (AfterAverage /\ \E i \in 1..Len(files) : DOMAIN files[i] # {}) =>
        /\ DOMAIN final_biomarkers = UNION {DOMAIN files[i] : i \in 1..Len(files)}
        /\ \A k \in DOMAIN final_biomarkers :
              /\ final_biomarkers[k].n * Cardinality(Observed(k))
                    = ObservedSum(k, Observed(k)) * final_biomarkers[k].d
              /\ Cardinality(Observed(k)) = 1 =>
                    final_biomarkers[k] = Num(ObservedSum(k, Observed(k)))
        /\ files = <<("glucose" :> 9000), ("glucose" :> 11000)>> =>
              Eq(final_biomarkers["glucose"], Num(10000))
        /\ files = <<("glucose" :> 10000)>> => final_biomarkers["glucose"] = Num(10000)

\* three sources with three different readings of one key, one of them also
\* holding a key no other source has
C10_Witness ==
    /\ pc = "done"
    /\ Len(files) = 3
    /\ Cardinality(Observed("glucose")) = 3
    /\ Cardinality({files[i]["glucose"] : i \in 1..3}) = 3
    /\ Cardinality(Observed("ldl_cholesterol")) = 1
    /\ Eq(final_biomarkers["glucose"], Num(10000))
    /\ final_biomarkers["ldl_cholesterol"] = Num(12000)

\* C11: once the biomarkers are analyzed, every key of the merged map has exactly
\* one record and the report holds no other record; a key without a registry
\* entry is reported with its merged value, status 'Detected', category
\* 'unknown' and is_optimal false.
C11_UnknownKeyReported ==
    AfterAnalyze =>
        /\ Len(analyzed_biomarkers) = Cardinality(DOMAIN final_biomarkers)
        /\ \A k \in DOMAIN final_biomarkers :
              Cardinality({i \in 1..Len(analyzed_biomarkers) :
                             analyzed_biomarkers[i].key = k}) = 1
        /\ \A i \in 1..Len(analyzed_biomarkers) :
              LET r == analyzed_biomarkers[i]
              IN  r.key \notin DOMAIN BIOMARKER_RULES =>
                    /\ r.value = final_biomarkers[r.key]
                    /\ r.status = "Detected"
                    /\ r.status_category = "unknown"
                    /\ ~r.is_optimal

C11_Witness ==
    /\ pc = "done"
    /\ Len(files) > 1
    /\ Len(response.biomarkers) = 2
    /\ \E i \in 1..2 : /\ response.biomarkers[i].key = "ldl_cholesterol"
                        /\ response.biomarkers[i].status_category = "unknown"

\* the file of the request has been read
AfterRead == pc \notin {"read", "idle"}

\* the rows of the table that carry a number and one of these names
RowsNamed(names) ==
    {i \in 1..Len(source.rows) : source.rows[i].numeric /\ source.rows[i].name \in names}

\* C12: a reading of a table named 'LDL Cholesterol' or 'ldl_cholesterol' is
\* handed to the merge step under the registry key 'ldl', and one named
\* 'hdl-cholesterol' under 'hdl'.
C12_AliasTableApplied ==
    (AfterRead /\ source.file_type = "csv") =>
        /\ RowsNamed({"LDL Cholesterol", "ldl_cholesterol"}) # {} =>
              /\ "ldl" \in DOMAIN files[1]
              /\ "ldl_cholesterol" \notin DOMAIN files[1]
        /\ RowsNamed({"hdl-cholesterol"}) # {} =>
              /\ "hdl" \in DOMAIN files[1]
              /\ "hdl_cholesterol" \notin DOMAIN files[1]

\* the candidates of the text whose context matches registry key k
MatchingCandidates(k) ==
    {i \in 1..Len(source.candidates) : ContextMatches(k, source.candidates[i].context)}

\* C13: after one pass of the matcher over the candidates of a text, every
\* registry key with a matching candidate holds the value of the first matching
\* candidate of the sequence, whatever matches later, and a key with no matching
\* candidate is absent from the result.
C13_FirstMatchWins ==
    (AfterRead /\ source.file_type \in {"pdf", "image"}) =>
        \A k \in DOMAIN BIOMARKER_RULES :
            IF MatchingCandidates(k) = {}
            THEN k \notin DOMAIN source_biomarkers
            ELSE /\ k \in DOMAIN source_biomarkers
                 /\ \E i \in MatchingCandidates(k) :
                       /\ \A j \in MatchingCandidates(k) : i <= j
                       /\ source_biomarkers[k] = source.candidates[i].value

C13_Witness ==
    /\ pc = "files"
    /\ source.file_type = "pdf"
    /\ Len(source.candidates) = 3
    /\ source.candidates[1].context = "patient age"
    /\ source.candidates[2] = [context |-> "fasting glucose level", value |-> 12000]
    /\ source.candidates[3] = [context |-> "glucose", value |-> 9000]
    /\ DOMAIN source_biomarkers = {"glucose"}
    /\ source_biomarkers["glucose"] = 12000

\* C14: the symptom list of a report has at most 15 entries and no entry twice.
C14_SymptomsCapped ==
    AfterSymptoms =>
        /\ Len(symptoms) <= 15
        /\ \A i, j \in 1..Len(symptoms) : symptoms[i] = symptoms[j] => i = j

C14_Witness ==
    /\ pc = "done"
    /\ Cardinality(DOMAIN final_biomarkers) = 3
    /\ Cardinality(SymptomUnion(detected_diseases, final_biomarkers)) > 15
    /\ Len(response.symptoms) = 15

\* the symptoms the severity of the readings brings, and the fixed messages
BiomarkerSideSymptoms ==
    BiomarkerLoop(KeysOf(final_biomarkers), final_biomarkers).added
    \cup SeqToSet(PositiveHealthMessages) \cup SeqToSet(MonitoringMessages)
    \cup SeqToSet(GuidanceMessages)

\* C15: when the symptoms found number at most 15, every symptom of every rule
\* that fires on the merged map is in the symptom list; when no rule fires (the
\* list of conditions holds a fallback entry only), the list holds nothing but
\* the symptoms of the readings' severity and the fixed messages.
C15_RuleSymptomsUnioned ==
    AfterSymptoms =>
        /\ Cardinality(SymptomUnion(detected_diseases, final_biomarkers)) <= 15 =>
              \A r \in FiringRules : SeqToSet(RuleSymptoms(DISEASE_RULES[r].key)) \subseteq SeqToSet(symptoms)
        /\ FiringRules = {} => SeqToSet(symptoms) \subseteq BiomarkerSideSymptoms

C15_Witness ==
    /\ pc = "done"
    /\ Cardinality(FiringRules) >= 3
    /\ Len(response.symptoms) \in 10..14
    /\ \A r \in FiringRules : SeqToSet(RuleSymptoms(DISEASE_RULES[r].key)) \subseteq SeqToSet(response.symptoms)

\* the readings get_symptoms looks at: a registry entry and a symptom table
SymptomKeys ==
    DOMAIN final_biomarkers \cap DOMAIN BIOMARKER_RULES \cap DOMAIN general_symptoms

\* the symptoms found for the report, before any fixed message
FoundSymptoms == SymptomUnion(detected_diseases, final_biomarkers)

\* reading v of key k is at or above the high threshold or outside the
\* acceptable range
OutOfRange(k, v) ==
    \/ Le(Num(High(k)), v)
    \/ Lt(Num(AMax(k)), v)
    \/ Lt(v, Num(AMin(k)))

\* reading v of key k falls under a rule of its own: TSH above 3.0, HDL below 50
CarvedOut(k, v) ==
    \/ k = "tsh" /\ Lt(Num(300), v)
    \/ k = "hdl" /\ Lt(v, Num(5000))

C17_GuidancePadding ==
    AfterSymptoms =>
        LET n == IF FoundSymptoms = {} THEN 5 ELSE Cardinality(FoundSymptoms)
        IN  IF n < 3
            THEN /\ Len(symptoms) = n + 3
                 /\ SeqToSet(SubSeq(symptoms, 1, n)) = FoundSymptoms
                 /\ SubSeq(symptoms, n + 1, n + 3) = GuidanceMessages
            ELSE SeqToSet(symptoms) \cap SeqToSet(GuidanceMessages) = {}

C17_Witness ==
    /\ pc = "done"
    /\ Cardinality(FoundSymptoms) = 2
    /\ Len(response.symptoms) = 5
    /\ response.symptoms[5] = "Consult healthcare provider for personalized advice"

\* the severity the precedence gives reading v of key k
ClaimedSeverity(k, v) ==
    IF Le(Num(High(k)), v) THEN "high"
    ELSE IF Lt(Num(AMax(k)), v) THEN "borderline"
    ELSE IF Lt(v, Num(AMin(k))) THEN "low"
    ELSE "none"

\* symptom s is in the list of a rule that fires
FromFiringRule(s) ==
    \E r \in FiringRules : s \in SeqToSet(RuleSymptoms(DISEASE_RULES[r].key))

\* the entries of the 'high', 'borderline' and 'low' subsets of key k
SeverityEntries(k) ==
    UNION {SeqToSet(Get(general_symptoms[k], name)) : name \in {"high", "borderline", "low"}}

\* C18 as claimed: the subset of the severity (high before borderline before
\* low) is in the list, and a reading inside the acceptable range brings no
\* entry of the three subsets of its key.
C18_SeverityPrecedence ==
    (AfterSymptoms /\ Cardinality(FoundSymptoms) <= 15) =>
        \A k \in SymptomKeys :
            LET v        == final_biomarkers[k]
                severity == ClaimedSeverity(k, v)
            IN  IF severity # "none"
                THEN SeqToSet(Get(general_symptoms[k], severity)) \subseteq SeqToSet(symptoms)
                ELSE \A s \in SeverityEntries(k) \cap SeqToSet(symptoms) : FromFiringRule(s)

\* C18 amended: as claimed, except that an HDL reading inside the acceptable
\* range and below 50 brings the 'borderline' subset of HDL.
C18_SeverityPrecedenceButHdl ==
    (AfterSymptoms /\ Cardinality(FoundSymptoms) <= 15) =>
        \A k \in SymptomKeys :
            LET v        == final_biomarkers[k]
                severity == ClaimedSeverity(k, v)
            IN  IF severity # "none"
                THEN SeqToSet(Get(general_symptoms[k], severity)) \subseteq SeqToSet(symptoms)
                ELSE IF k = "hdl" /\ Lt(v, Num(5000))
                THEN SeqToSet(general_symptoms[k]["borderline"]) \subseteq SeqToSet(symptoms)
                ELSE \A s \in SeverityEntries(k) \cap SeqToSet(symptoms) : FromFiringRule(s)

C18_Witness ==
    /\ pc = "done"
    /\ "total_cholesterol" \in DOMAIN final_biomarkers
    /\ Le(Num(High("total_cholesterol")), final_biomarkers["total_cholesterol"])
    /\ SeqToSet(general_symptoms["total_cholesterol"]["high"]) \subseteq SeqToSet(response.symptoms)
    /\ SeqToSet(general_symptoms["total_cholesterol"]["borderline"])
           \cap SeqToSet(response.symptoms) = {}

\* C19: a TSH reading above 3.0 and below the high threshold 10.0 brings the
\* 'borderline_high' symptoms of TSH, and an HDL reading from 40 up to but not
\* including 50 brings the 'borderline' symptoms of HDL (where the symptoms
\* found number at most 15).
C19_CarveOuts ==
    (AfterSymptoms /\ Cardinality(FoundSymptoms) <= 15) =>
        /\ \A k \in SymptomKeys \cap {"tsh"} :
              (Lt(Num(300), final_biomarkers[k]) /\ Lt(final_biomarkers[k], Num(High(k)))) =>
                SeqToSet(general_symptoms[k]["borderline_high"]) \subseteq SeqToSet(symptoms)
        /\ \A k \in SymptomKeys \cap {"hdl"} :
              (Le(Num(AMin(k)), final_biomarkers[k]) /\ Lt(final_biomarkers[k], Num(5000))) =>
                SeqToSet(general_symptoms[k]["borderline"]) \subseteq SeqToSet(symptoms)

\* the template of a substring (app.py 1237-1244)
TemplateOf(substring) ==
    CASE substring = "diabetes"       -> "diabetes_type_2"
      [] substring = "cardiovascular" -> "cardiovascular_risk"
      [] substring = "anemia"         -> "iron_deficiency_anemia"
      [] substring = "thyroid"        -> "thyroid_disorders"

---------------------------------------------------------------------------
(* The recommendations of a report without a disease rule.                  *)

\* the detected conditions hold a fallback entry of detect_diseases only
OnlyFallback ==
    /\ Len(detected_diseases) = 1
    /\ detected_diseases[1] \in {EverythingFine, HealthMonitoring}

\* C21: when no disease rule fired, so that the detected conditions hold only
\* 'Everything Fine' or 'Health Monitoring Recommended', each of the three
\* buckets of the recommendations holds exactly the first two items of the
\* general-wellness template.
C21_FallbackGetsWellness ==
    (AfterRecommend /\ OnlyFallback) =>
        \A category \in Categories :
            /\ Len(recommendations[category]) = 2
            /\ SeqToSet(recommendations[category])
                 = SeqToSet(SubSeq(RECOMMENDATION_TEMPLATES["general_wellness"][category], 1, 2))

---------------------------------------------------------------------------
(* The shape of the recommendations.                                        *)

\* the conditions of the list whose name selects the template of a substring
Selecting(substring) ==
    {i \in 1..Len(detected_diseases) :
        TemplateKeys(Lower(detected_diseases[i].name)) = {TemplateOf(substring)}}

\* C22: for every list of detected conditions the recommendations have exactly
\* the three buckets 'Professional Consultation', 'Dietary' and 'Lifestyle',
\* and no bucket lists an item twice, also when two selected templates share
\* an item.
C22_BucketsDeduplicated ==
    pc = "returned" =>
        /\ DOMAIN recommendations
             = {"Professional Consultation", "Dietary", "Lifestyle"}
        /\ \A category \in DOMAIN recommendations :
              \A i, j \in 1..Len(recommendations[category]) :
                  recommendations[category][i] = recommendations[category][j] => i = j

\* a diabetes and a cardiovascular condition, whose Lifestyle lists share
\* 'Maintain a healthy weight': the bucket lists it once
C22_Witness ==
    /\ pc = "returned"
    /\ Selecting("diabetes") # {}
    /\ Selecting("cardiovascular") # {}
    /\ \E item \in SeqToSet(RECOMMENDATION_TEMPLATES["diabetes_type_2"]["Lifestyle"])
                   \cap SeqToSet(RECOMMENDATION_TEMPLATES["cardiovascular_risk"]["Lifestyle"]) :
          /\ item = "Maintain a healthy weight"
          /\ Cardinality({i \in 1..Len(recommendations["Lifestyle"]) :
                            recommendations["Lifestyle"][i] = item}) = 1

---------------------------------------------------------------------------
(* The thyroid rules on TSH.                                                *)

ThyroidNames == {"Hypothyroidism", "Borderline Hypothyroidism", "Hyperthyroidism"}

\* the thyroid rules reported in the detected conditions
ThyroidReported == {name \in ThyroidNames : Reported(name) > 0}

\* C23: every TSH value in [3.0, 4.0], 3.2 among them, is reported as
\* 'Borderline Hypothyroidism' and not as 'Hypothyroidism'; for every TSH value
\* at most one of Hypothyroidism, Borderline Hypothyroidism and Hyperthyroidism
\* is reported.
C23_TshBoundaries ==
    (AfterDetect /\ "tsh" \in DOMAIN final_biomarkers) =>
        LET value == final_biomarkers["tsh"]
        IN  /\ (Le(Num(300), value) /\ Le(value, Num(400)))
                 => ThyroidReported = {"Borderline Hypothyroidism"}
            /\ Eq(value, Num(320)) => ThyroidReported = {"Borderline Hypothyroidism"}
            /\ Cardinality(ThyroidReported) <= 1
            /\ \A name \in ThyroidNames : Reported(name) <= 1

\* TSH exactly 4.0, the shared end of the two rules: borderline only
C23_Witness ==
    /\ pc = "done"
    /\ "tsh" \in DOMAIN final_biomarkers
    /\ final_biomarkers["tsh"] = Num(400)
    /\ Reported("Borderline Hypothyroidism") = 1
    /\ Reported("Hypothyroidism") = 0

---------------------------------------------------------------------------
(* The candidates kept by extract_numbers_from_text.                        *)

\* the numeric portion parses and the trimmed, lowercased label has 3
\* characters or more
Kept(match) == FloatOf(match[2]).ok /\ Len(StripLower(match[1])) >= 3

\* the matches of the text that pass both tests, in order
KeptMatches == SelectSeq(source.matches, Kept)

\* C24: a match becomes a candidate only if its numeric portion parses and its
\* trimmed, lowercased label has at least 3 characters; a match failing a test
\* is dropped and the matches after it are still extracted, so the candidates
\* are the passing matches in order and every candidate's label has length 3
\* or more.
C24_KeptIffValid ==
    pc = "extracted" =>
        /\ \A i \in 1..Len(extracted_numbers) : Len(extracted_numbers[i].context) >= 3
        /\ Len(extracted_numbers) = Len(KeptMatches)
        /\ \A i \in 1..Len(KeptMatches) :
              /\ extracted_numbers[i].context = StripLower(KeptMatches[i][1])
              /\ extracted_numbers[i].value = FloatOf(KeptMatches[i][2]).value

\* a match with a 2-character label between two matches that are kept, the
\* first with a label of exactly 3 characters
C24_Witness ==
    /\ pc = "extracted"
    /\ Len(source.matches) = 3
    /\ source.matches[1][1] = "TSH "
    /\ source.matches[2][1] = " Hb"
    /\ source.matches[3][1] = "Glucose level"
    /\ Len(extracted_numbers) = 2
    /\ extracted_numbers[1].context = "tsh"
    /\ extracted_numbers[2].context = "glucose level"

---------------------------------------------------------------------------
(* The registries across requests.                                          *)

\* the dict the merge step and the sample fallback build from one source
AllOf(biomarkers) ==
    LET all == MergeLoop(EmptyDict, KeysOf(biomarkers), biomarkers)
    IN  IF DOMAIN all = {} THEN SampleData ELSE all

\* the report of a source computed from the source alone (one source has no
\* list of readings, so that the way floats are summed plays no part)
ReportOf(file, seed) ==
    LET final    == FinalBiomarkers(AllOf(SourceBiomarkers(file)), "naive")
        detected == detect_diseases(final)
    IN  [biomarkers         |-> AnalyzeLoop(KeysOf(final), final),
         potential_diseases |-> detected,
         symptoms           |-> get_symptoms(detected, final, seed),
         recommendations    |-> generate_recommendations(detected, seed)]

---------------------------------------------------------------------------
(* The fallback entry and the classified biomarkers of one report.          *)

\* C26: in every report the fallback of detect_diseases agrees with the range
\* classifier: with 'Everything Fine' detected every classified biomarker of a
\* registered key has status_category 'optimal' and is_optimal true, and with
\* 'Health Monitoring Recommended' detected at least one of them is not
\* optimal.
C26_FallbackAgrees ==
    pc = "done" =>
        LET registered ==
              {i \in 1..Len(response.biomarkers) :
                 response.biomarkers[i].key \in DOMAIN BIOMARKER_RULES}
            names ==
              {response.potential_diseases[i].name :
                 i \in 1..Len(response.potential_diseases)}
        IN  /\ "Everything Fine" \in names =>
                  \A i \in registered :
                      /\ response.biomarkers[i].status_category = "optimal"
                      /\ response.biomarkers[i].is_optimal
            /\ "Health Monitoring Recommended" \in names =>
                  \E i \in registered :
                      /\ response.biomarkers[i].status_category # "optimal"
                      /\ ~response.biomarkers[i].is_optimal

\* a report with 'Health Monitoring Recommended' that holds an optimal and a
\* non-optimal biomarker, the latter inside its acceptable range
C26_Witness ==
    /\ pc = "done"
    /\ response.potential_diseases = <<HealthMonitoring>>
    /\ \E i, j \in 1..Len(response.biomarkers) :
          /\ response.biomarkers[i].is_optimal
          /\ response.biomarkers[j].status_category \in {"below_optimal", "above_optimal"}

---------------------------------------------------------------------------
(* Entries with a one-sided display range.                                  *)

\* the category of value v from the four numbers of key k alone: the band
\* [min + span/5, max - span/5] inside [min, max], high_threshold above
CategoryOf(k, v) ==
    LET high == BIOMARKER_RULES[k].high_threshold.n
    IN  IF InOptimalBand(k, v) THEN "optimal"
        ELSE IF AMin(k) * v.d <= v.n /\ v.n <= AMax(k) * v.d
        THEN IF 5 * v.n < (4 * AMin(k) + AMax(k)) * v.d THEN "below_optimal"
             ELSE "above_optimal"
        ELSE IF v.n < AMin(k) * v.d THEN "below_acceptable"
        ELSE IF v.n >= high * v.d THEN "significantly_high"
        ELSE "above_acceptable"

\* the bound a one-sided entry displays, in 1/10: 0.8 x acceptable_max for
\* '<X', 1.25 x acceptable_min for '>X'
DisplayedBound(k) ==
    IF RangePrefix(k) = "<" THEN Format1f([n |-> 4 * AMax(k), d |-> 5])
    ELSE Format1f([n |-> 5 * AMin(k), d |-> 4])

\* value v lies on the optimal side of the bound the entry displays
WithinDisplayed(k, v) ==
    IF RangePrefix(k) = "<" THEN v.n < 10 * DisplayedBound(k) * v.d
    ELSE v.n > 10 * DisplayedBound(k) * v.d

\* C27: the status of a biomarker depends only on value, acceptable_min,
\* acceptable_max and high_threshold: total_cholesterol, ldl ('<X') and hdl
\* ('>X') are classified with the same band of span/5 margins as every other
\* entry, and only their displayed optimal_range uses the proportional bound.
C27_SymmetricBandForAll ==
    AfterAnalyze =>
        \A r \in RegisteredRecords :
            /\ r.status_category = CategoryOf(r.key, r.value)
            /\ r.is_optimal <=> InOptimalBand(r.key, r.value)
            /\ RangePrefix(r.key) # "" =>
                  /\ r.optimal_range.prefix = RangePrefix(r.key)
                  /\ r.optimal_range.lo = DisplayedBound(r.key)

\* hdl just above the 50.0 it displays as optimal bound is Below Optimal
C27_Witness ==
    /\ pc = "done"
    /\ \E r \in RegisteredRecords :
          /\ r.key = "hdl"
          /\ r.optimal_range = [prefix |-> ">", lo |-> 500, hi |-> 500]
          /\ WithinDisplayed(r.key, r.value)
          /\ r.value.n <= 5100 * r.value.d
          /\ r.status = "Below Optimal"

---------------------------------------------------------------------------
(* The glucose rules above the normal range.                                *)

\* C28: for every merged glucose value of 100 or more, means of several
\* sources included, at least one of 'Prediabetes' and 'Type 2 Diabetes' is
\* reported.
C28_NoGlucoseGap ==
    (AfterDetect /\ "glucose" \in DOMAIN final_biomarkers
                 /\ Le(Num(10000), final_biomarkers["glucose"])) =>
        Reported("Prediabetes") + Reported("Type 2 Diabetes") >= 1

---------------------------------------------------------------------------
(* The merge step and the order of the sources.                             *)

RECURSIVE MergeAll(_, _)
\* the dict the file loop builds from the sources fs, starting from all
MergeAll(all, fs) ==
    IF fs = <<>> THEN all
    ELSE MergeAll(MergeLoop(all, KeysOf(Head(fs)), Head(fs)), Tail(fs))

\* the merged map of the sources fs
MergedOf(fs, algorithm) == FinalBiomarkers(MergeAll(EmptyDict, fs), algorithm)

\* the sources of the request in the order p
Permuted(p) == [i \in 1..Len(files) |-> files[p[i]]]

\* C29: the merge step does not depend on the order of the sources: every
\* permutation of the same per-source maps gives the merged map the same key
\* set, the union of the sources' key sets, and each key the same value; a key
\* of one source only keeps the value of that source.
C29_OrderIndependent ==
    (AfterAverage /\ \E i \in 1..Len(files) : DOMAIN files[i] # {}) =>
        /\ DOMAIN final_biomarkers = UNION {DOMAIN files[i] : i \in 1..Len(files)}
        /\ \E algorithm \in SumAlgorithms :
              /\ final_biomarkers = MergedOf(files, algorithm)
              /\ \A p \in Permutations(1..Len(files)) :
                    MergedOf(Permuted(p), algorithm) = final_biomarkers
        /\ \A k \in DOMAIN final_biomarkers :
              \A i \in 1..Len(files) :
                  (k \in DOMAIN files[i]
                     /\ \A j \in 1..Len(files) : k \in DOMAIN files[j] => j = i)
                  => final_biomarkers[k] = Num(files[i][k])

---------------------------------------------------------------------------
(* The keys of the matcher's result.                                        *)

\* the registry keys for which candidate i is the first that matches
ClaimedBy(i) ==
    {k \in DOMAIN BIOMARKER_RULES :
        /\ i \in MatchingCandidates(k)
        /\ \A j \in MatchingCandidates(k) : i <= j}

\* C30: every key of the map standardize_biomarkers returns for a text is a
\* key of BIOMARKER_RULES, and the matcher does not use a candidate up: a
\* candidate that is the first match of several registry keys gives its value
\* to each of them in the same pass.
C30_CandidatesShared ==
    (AfterRead /\ source.file_type \in {"pdf", "image"}) =>
        /\ DOMAIN source_biomarkers \subseteq DOMAIN BIOMARKER_RULES
        /\ \A i \in 1..Len(source.candidates) :
              \A k \in ClaimedBy(i) :
                  /\ k \in DOMAIN source_biomarkers
                  /\ source_biomarkers[k] = source.candidates[i].value

\* one 'cholesterol' candidate behind a glucose candidate gives its value to
\* total_cholesterol, ldl and hdl
C30_Witness ==
    /\ pc = "files"
    /\ source.file_type = "image"
    /\ Len(source.candidates) = 2
    /\ source.candidates[1].context = "glucose"
    /\ source.candidates[2] = [context |-> "cholesterol", value |-> 12000]
    /\ ClaimedBy(2) = {"total_cholesterol", "ldl", "hdl"}
    /\ DOMAIN source_biomarkers = {"glucose", "total_cholesterol", "ldl", "hdl"}
    /\ \A k \in ClaimedBy(2) : source_biomarkers[k] = 12000

===========================================================================
